---- MODULE Spec2Model ----
(***************************************************************************)
(* Model of the image pyramid builder (pyramid_preprocessing.py) and of    *)
(* the viewport tile cache of BaseImageGraphicsItem (view_widget.py).      *)
(*                                                                         *)
(* SpecBuild : generate_pyramid / block_filter_to_pyramid on one h5 file.  *)
(* SpecView  : update_image_window / _calculate_crop /                     *)
(*             _collect_processing_tiles on one image item.                *)
(***************************************************************************)
EXTENDS Integers, Sequences, FiniteSets, TLC

\* ------------------------------------------------------------------------
\* Bounds of the model
\* ------------------------------------------------------------------------
MaxDim == 4
MaxBlock == 2
MaxRadius == 1
MaxLength == 2
MaxDownsample == 2

\* Python's None for the integer-valued attributes and accumulators.
None == -1

Min(a, b) == IF a < b THEN a ELSE b
Max(a, b) == IF a > b THEN a ELSE b

SetMin(S) == CHOOSE x \in S : \A y \in S : x <= y
SetMax(S) == CHOOSE x \in S : \A y \in S : x >= y

\* ceil(a / b) for a >= 0, b > 0
CeilDiv(a, b) == (a + b - 1) \div b

Coords(M, N) == (0 .. M - 1) \X (0 .. N - 1)

\* ------------------------------------------------------------------------
\* The h5 file and the builder
\* ------------------------------------------------------------------------
VARIABLES
    shape,      \* shape of the original dataset: <<M, N>> or <<M, N, C>>
    data,       \* pixel values of the original dataset, by <<row, col>>
    attrs,      \* file attributes max_level, image_min, image_max
    pyramid,    \* the group "pyramid": [exists, levels]; levels[i] is dataset str(i)
    pc,         \* position of the generate_pyramid call
    args,       \* arguments of the current (or last) generate_pyramid call
    levels,     \* local variable levels of generate_pyramid
    i,          \* loop variable i of generate_pyramid (level i+1 is being made)
    row,        \* loop variable row of block_filter_to_pyramid
    col,        \* loop variable col of block_filter_to_pyramid
    index,      \* local variable index of block_filter_to_pyramid
    image_min,  \* local variable image_min of block_filter_to_pyramid
    image_max,  \* local variable image_max of block_filter_to_pyramid
    emitted,    \* progress notifications emitted by the current call
    log,        \* logging.info message of the early return, "" if none
    halo,       \* the block processed last and its m_low, m_hgh, n_low, n_hgh
    built       \* arguments of the call that completed a build, if any

bvars == <<shape, data, attrs, pyramid, pc, args, levels, i, row, col, index,
           image_min, image_max, emitted, log, halo, built>>

\* ------------------------------------------------------------------------
\* The image item (BaseImageGraphicsItem) and the file it displays
\* ------------------------------------------------------------------------
VARIABLES
    img,                    \* shape <<H, W>> of the original dataset of image_file
    max_zoom,               \* attribute max_level of image_file
    processing_tile_size,
    item_scale,             \* QGraphicsItem.scale() of the item
    current_zoom_level,
    current_coordinates,    \* viewport in scene coordinates, NoRect before the first call
    current_crop_list,      \* the tile cache: tile key <<x, y>> |-> block
    current_crop,           \* the crop on display, NoCrop before the first one
    current_shadow,
    current_mid,
    current_highlight,
    paint_x_coord,
    paint_y_coord,
    pixmaps,                \* the display tiles made of the crop
    last                    \* what the last update_image_window call did

vvars == <<img, max_zoom, processing_tile_size, item_scale, current_zoom_level,
           current_coordinates, current_crop_list, current_crop, current_shadow,
           current_mid, current_highlight, paint_x_coord, paint_y_coord, pixmaps,
           last>>


\* ------------------------------------------------------------------------
\* A call of _compute_new_image_levels looked at on its own
\* ------------------------------------------------------------------------
VARIABLES
    tone_in,    \* the arguments image, shadow, mid, highlight of the call
    tone_out    \* what the call has returned, NoArray before it returns

tvars == <<tone_in, tone_out>>

\* ------------------------------------------------------------------------
\* The main window, its thread pool and the raster files
\* ------------------------------------------------------------------------
VARIABLES
    h5,         \* the raster files: shape, attributes and pyramid group of each
    workers,    \* the Worker runnables handed to the thread pool, in start order
    events,     \* signal emissions queued for the main thread, oldest first
    image_file, \* MainWindow.image_file
    no_pyramid, \* MainWindow.no_pyramid
    progress,   \* range and value of the progress bar MainWindow.progress
    loaded,     \* what central_widget.setImage was last given
    app         \* "running", or "aborted" after qFatal

wvars == <<h5, workers, events, image_file, no_pyramid, progress, loaded, app>>

\* ------------------------------------------------------------------------
\* The ViewWidget that owns the image item
\* ------------------------------------------------------------------------
VARIABLES
    view_zoom_level,    \* ViewWidget.current_zoom_level
    view_scale,         \* scale of the view transform, a rational <<n, d>>
    last_wheel          \* the last wheel event and the view it met

zvars == <<view_zoom_level, view_scale, last_wheel>>

\* ------------------------------------------------------------------------
\* The LevelsSliderWidget of the main window
\* ------------------------------------------------------------------------
VARIABLES
    levels_widget,  \* range and positions of the three sliders, image_min/mid/max
    last_levels     \* the last call or slider movement and whether it raised

lvars == <<levels_widget, last_levels>>

vars == <<shape, data, attrs, pyramid, pc, args, levels, i, row, col, index,
          image_min, image_max, emitted, log, halo, built,
          img, max_zoom, processing_tile_size, item_scale, current_zoom_level,
          current_coordinates, current_crop_list, current_crop, current_shadow,
          current_mid, current_highlight, paint_x_coord, paint_y_coord, pixmaps,
          last, tone_in, tone_out,
          h5, workers, events, image_file, no_pyramid, progress, loaded, app,
          view_zoom_level, view_scale, last_wheel,
          levels_widget, last_levels>>

NoArray == [dtype |-> "none"]

NoFile == "none"
NoProgress == [minimum |-> 0, maximum |-> 0, value |-> None]
NoImage == [image_file |-> NoFile]

NoWheel == [y |-> 0, refused |-> FALSE, handled |-> FALSE, raised |-> FALSE]

NoSliders == [minimum |-> 0, maximum |-> 0, shadow_slider |-> 0,
              midtone_slider |-> 0, highlight_slider |-> 0,
              image_min |-> 0, image_max |-> 0, image_mid |-> 0]
NoLevelsCall == [op |-> "none", args |-> <<>>, raised |-> FALSE]

\* No levels widget is looked at
NoLevels ==
    /\ levels_widget = NoSliders
    /\ last_levels = NoLevelsCall

\* No view is looked at
NoView ==
    /\ view_zoom_level = 0
    /\ view_scale = <<1, 1>>
    /\ last_wheel = NoWheel

\* No main window exists
NoWindow ==
    /\ h5 = <<>>
    /\ workers = <<>>
    /\ events = <<>>
    /\ image_file = NoFile
    /\ no_pyramid = FALSE
    /\ progress = NoProgress
    /\ loaded = NoImage
    /\ app = "running"

\* No call of _compute_new_image_levels is looked at on its own
NoTone ==
    /\ tone_in = [image |-> NoArray, shadow |-> 0, mid |-> 0, highlight |-> 0]
    /\ tone_out = NoArray

\* A viewport that has not been set, a crop that has not been made
NoRect == [left |-> 0, top |-> 0, right |-> 0, bottom |-> 0]
NoCrop == [image |-> <<>>]
NoCall == [op |-> "none"]

\* No image item exists (the builder is looked at on its own)
NoItem ==
    /\ img = <<1, 1>>
    /\ max_zoom = 0
    /\ processing_tile_size = 1
    /\ item_scale = 1
    /\ current_zoom_level = 0
    /\ current_coordinates = NoRect
    /\ current_crop_list = <<>>
    /\ current_crop = NoCrop
    /\ current_shadow = 0
    /\ current_mid = 0
    /\ current_highlight = 0
    /\ paint_x_coord = None
    /\ paint_y_coord = None
    /\ pixmaps = <<>>
    /\ last = NoCall

\* ------------------------------------------------------------------------
\* Pure parts of generate_pyramid and block_filter_to_pyramid
\* ------------------------------------------------------------------------

\* max(h5_image[image_key].shape): the largest entry of the shape tuple
Length(sh) == SetMax({sh[k] : k \in 1 .. Len(sh)})

RECURSIVE LevelsLoop(_, _, _)
\* while length > max_length: length = length // downsample; levels += 1
LevelsLoop(length, max_length, downsample) ==
    IF length > max_length
    THEN 1 + LevelsLoop(length \div downsample, max_length, downsample)
    ELSE 0

\* Faulty variant: an "if" in place of the "while"
NumLevels_NoLoop(sh, a) ==
    IF a.no_pyramid THEN 0
    ELSE IF Length(sh) > a.max_length THEN 1 ELSE 0

\* Faulty variant: no_pyramid is not looked at
NumLevels_IgnoreNoPyramid(sh, a) ==
    LevelsLoop(Length(sh), a.max_length, a.downsample)

\* levels as computed by generate_pyramid for the call arguments a
NumLevels(sh, a) ==
    IF a.no_pyramid THEN 0
    ELSE LevelsLoop(Length(sh), a.max_length, a.downsample)

\* Faulty variant: the group is never found
PyramidExists_Never(pyr) == FALSE

\* "pyramid" in h5_image
PyramidExists(pyr) == pyr.exists

\* Faulty variant: the extra row or column is added to even sizes as well
HalfSize_PlusOne(n) == n \div 2 + 1

\* M_output / N_output of block_filter_to_pyramid
HalfSize(n) == IF n % 2 = 0 THEN n \div 2 ELSE n \div 2 + 1

\* target_shape of block_filter_to_pyramid
TargetShape(sh) ==
    IF Len(sh) = 3
    THEN <<HalfSize(sh[1]), HalfSize(sh[2]), sh[3]>>
    ELSE <<HalfSize(sh[1]), HalfSize(sh[2])>>

\* Faulty variant: the blocks of a partial last row or column are not counted
Total_FloorDiv(M, N, blocksize) == (M \div blocksize) * (N \div blocksize)

\* total = int(np.ceil(M / blocksize) * np.ceil(N / blocksize))
Total(M, N, blocksize) == CeilDiv(M, blocksize) * CeilDiv(N, blocksize)

\* Halo amounts of the block at (r, c)
m_low(r, radius) == radius + Min(r - radius, 0)
m_hgh(M, r, blocksize, radius) == Max(Min(M - (r + blocksize + radius), radius), 0)
n_low(c, radius) == radius + Min(c - radius, 0)
n_hgh(N, c, blocksize, radius) == Max(Min(N - (c + blocksize + radius), radius), 0)

\* Bounds of the numpy/h5py slice [lo : hi] of an axis of length n (lo, hi >= 0)
SliceBounds(lo, hi, n) == [lo |-> Min(lo, n), hi |-> Max(Min(hi, n), Min(lo, n))]

\* input_slice of the block at (r, c): the source rows r0 .. r1-1, columns c0 .. c1-1
InputSlice(M, N, r, c, blocksize, radius) ==
    LET rs == SliceBounds(r - m_low(r, radius),
                          r + blocksize + m_hgh(M, r, blocksize, radius), M)
        cs == SliceBounds(c - n_low(c, radius),
                          c + blocksize + n_hgh(N, c, blocksize, radius), N)
    IN [r0 |-> rs.lo, r1 |-> rs.hi, c0 |-> cs.lo, c1 |-> cs.hi]

\* Index read by scipy's mode="reflect" for position p of an axis of length n
Reflect(p, n) ==
    LET m == p % (2 * n) IN IF m < n THEN m ELSE 2 * n - 1 - m

\* gaussian_filter along one axis, on the window lo .. hi-1 of the source axis,
\* at source position p: for every kernel offset k = 0 .. radius the source
\* positions that are weighted with the (symmetric) kernel weight w[k].
FilterTaps(p, lo, hi, radius) ==
    [k \in 0 .. radius |->
        {lo + Reflect(p - lo - k, hi - lo), lo + Reflect(p - lo + k, hi - lo)}]

\* rval after the filter, the halo crop and the [::downsample] subsampling, as
\* written to the output dataset: output pixel |-> <<source row, source column,
\* row taps, column taps>>
BlockOutput(M, N, r, c, a) ==
    LET s == InputSlice(M, N, r, c, a.blocksize, a.radius)
        lowR == s.r0 + m_low(r, a.radius)
        hghR == s.r1 - m_hgh(M, r, a.blocksize, a.radius)
        lowC == s.c0 + n_low(c, a.radius)
        hghC == s.c1 - n_hgh(N, c, a.blocksize, a.radius)
        cntR == IF hghR > lowR THEN CeilDiv(hghR - lowR, a.downsample) ELSE 0
        cntC == IF hghC > lowC THEN CeilDiv(hghC - lowC, a.downsample) ELSE 0
        outR == r \div a.downsample
        outC == c \div a.downsample
    IN [p \in (outR .. outR + cntR - 1) \X (outC .. outC + cntC - 1) |->
          LET sr == lowR + (p[1] - outR) * a.downsample
              sc == lowC + (p[2] - outC) * a.downsample
          IN <<sr, sc, FilterTaps(sr, s.r0, s.r1, a.radius),
                       FilterTaps(sc, s.c0, s.c1, a.radius)>>]

\* Faulty variant: the last row of a slice of several rows is left out
SliceValues_ShortRows(d, s) ==
    {d[p] : p \in (s.r0 .. Max(s.r0, s.r1 - 2)) \X (s.c0 .. s.c1 - 1)}

\* np.min(input_slice), np.max(input_slice) on the original raster
SliceValues(d, s) == {d[p] : p \in (s.r0 .. s.r1 - 1) \X (s.c0 .. s.c1 - 1)}

\* A pixel of a level dataset that no block has written
Unwritten == <<>>

\* input_image of the call that makes level lv: 0 is the original dataset,
\* k >= 1 the dataset pyramid/k
InputImage(lv) == IF lv = 1 THEN 0 ELSE lv - 1

\* output_destination.create_dataset(target, shape=target_shape, ...); src is
\* the input_image the blocks of the dataset are computed from
NewDataset(sh, src) ==
    [shape |-> sh, src |-> src, px |-> [p \in Coords(sh[1], sh[2]) |-> Unwritten]]

\* The source of level lv: the original for level 1, level lv-1 otherwise
SourceShape(lv) ==
    IF InputImage(lv) = 0 THEN shape ELSE pyramid.levels[InputImage(lv)].shape

NoHalo == [M |-> 0, N |-> 0, row |-> 0, col |-> 0,
           m_low |-> 0, m_hgh |-> 0, n_low |-> 0, n_hgh |-> 0]

NoArgs == [blocksize |-> 0, radius |-> 0, downsample |-> 0, max_length |-> 0,
           no_pyramid |-> FALSE]

Args == [blocksize : 1 .. MaxBlock, radius : 1 .. MaxRadius,
         downsample : 2 .. MaxDownsample, max_length : 1 .. MaxLength,
         no_pyramid : BOOLEAN]

\* ------------------------------------------------------------------------
\* generate_pyramid, step by step
\* ------------------------------------------------------------------------

\* Original rasters: 2-D, or 3-D with three channels (a slice always takes the
\* whole channel axis, so a pixel value stands for all its channels).
Shapes ==
    {<<M, N>> : M \in 1 .. MaxDim, N \in 1 .. MaxDim}
        \cup {<<M, N, 3>> : M \in 1 .. MaxDim, N \in 1 .. MaxDim}

\* Pixel values: 1 everywhere but for one pixel that is darker or brighter
Rasters(sh) ==
    {[p \in Coords(sh[1], sh[2]) |-> IF p = sp THEN v ELSE 1] :
        sp \in Coords(sh[1], sh[2]), v \in {0, 2}}

InitBuild ==
    /\ shape \in Shapes
    /\ data \in Rasters(shape)
    /\ attrs = [max_level |-> None, image_min |-> None, image_max |-> None]
    /\ pyramid = [exists |-> FALSE, levels |-> <<>>]
    /\ pc = "idle"
    /\ args = NoArgs
    /\ levels = 0
    /\ i = 0
    /\ row = 0
    /\ col = 0
    /\ index = 0
    /\ image_min = None
    /\ image_max = None
    /\ emitted = <<>>
    /\ log = ""
    /\ halo = NoHalo
    /\ built = NoArgs
    /\ NoItem
    /\ NoTone
    /\ NoWindow
    /\ NoView
    /\ NoLevels

\* generate_pyramid(...) up to the loop over the levels
Call(a) ==
    /\ pc \in {"idle", "returned", "failed"}
    /\ args' = a
    /\ levels' = NumLevels(shape, a)
    /\ emitted' = <<>>
    /\ i' = 0
    /\ IF NumLevels(shape, a) = 0
       THEN /\ attrs' = [max_level |-> 0,
                         image_min |-> SetMin({data[p] : p \in DOMAIN data}),
                         image_max |-> SetMax({data[p] : p \in DOMAIN data})]
            /\ pyramid' = pyramid
            /\ log' = ""
            /\ pc' = "returned"
       ELSE /\ attrs' = [attrs EXCEPT !.max_level = NumLevels(shape, a)]
            /\ IF PyramidExists(pyramid)
               THEN /\ log' = "Pyramid already exists"
                    /\ pyramid' = pyramid
                    /\ pc' = "returned"
               ELSE /\ log' = ""
                    /\ pyramid' = [pyramid EXCEPT !.exists = TRUE]
                    /\ pc' = "level"
    /\ UNCHANGED <<shape, data, row, col, index, image_min, image_max, halo, built>>
    /\ UNCHANGED vvars
    /\ UNCHANGED tvars
    /\ UNCHANGED wvars
    /\ UNCHANGED zvars
    /\ UNCHANGED lvars

\* block_filter_to_pyramid(...) up to the loop over the blocks
BeginLevel ==
    /\ pc = "level"
    /\ IF Len(SourceShape(i + 1)) > 3 \/ Len(SourceShape(i + 1)) < 2
       \* "if dim > 3 or dim < 2: sys.exit(...)": the call of sys.exit raises
       \* (TypeError, for its two arguments) and the exception leaves
       \* generate_pyramid
       THEN /\ pc' = "failed"
            /\ UNCHANGED <<pyramid, image_min, image_max, index, emitted, row, col>>
       ELSE /\ pyramid' = [pyramid EXCEPT
                             !.levels = Append(@, NewDataset(TargetShape(SourceShape(i + 1)),
                                                             InputImage(i + 1)))]
            /\ image_min' = None
            /\ image_max' = None
            /\ index' = 0
            /\ emitted' = Append(emitted,
                                 <<0, Total(SourceShape(i + 1)[1], SourceShape(i + 1)[2],
                                            args.blocksize)>>)
            /\ row' = 0
            /\ col' = 0
            /\ pc' = "block"
    /\ UNCHANGED <<shape, data, attrs, args, levels, i, log, halo, built>>
    /\ UNCHANGED vvars
    /\ UNCHANGED tvars
    /\ UNCHANGED wvars
    /\ UNCHANGED zvars
    /\ UNCHANGED lvars

\* One iteration of the loop over the blocks
Block ==
    /\ pc = "block"
    /\ LET M == SourceShape(i + 1)[1]
           N == SourceShape(i + 1)[2]
           out == BlockOutput(M, N, row, col, args)
           s == InputSlice(M, N, row, col, args.blocksize, args.radius)
       IN /\ halo' = [M |-> M, N |-> N, row |-> row, col |-> col,
                       m_low |-> m_low(row, args.radius),
                       m_hgh |-> m_hgh(M, row, args.blocksize, args.radius),
                       n_low |-> n_low(col, args.radius),
                       n_hgh |-> n_hgh(N, col, args.blocksize, args.radius)]
          /\ pyramid' = [pyramid EXCEPT !.levels[i + 1].px =
                            [p \in DOMAIN @ |->
                                IF p \in DOMAIN out THEN out[p] ELSE @[p]]]
          /\ index' = index + 1
          /\ emitted' = Append(emitted, <<index + 1, Total(M, N, args.blocksize)>>)
          \* the minimum and maximum of the later levels are returned to a
          \* caller that drops them
          /\ IF i = 0
             THEN IF image_min = None \/ image_max = None
                  THEN /\ image_min' = SetMin(SliceValues(data, s))
                       /\ image_max' = SetMax(SliceValues(data, s))
                  ELSE /\ image_min' = Min(image_min, SetMin(SliceValues(data, s)))
                       /\ image_max' = Max(image_max, SetMax(SliceValues(data, s)))
             ELSE UNCHANGED <<image_min, image_max>>
          /\ IF col + args.blocksize < N
             THEN /\ col' = col + args.blocksize
                  /\ row' = row
                  /\ pc' = "block"
             ELSE /\ col' = 0
                  /\ row' = row + args.blocksize
                  /\ pc' = IF row + args.blocksize < M THEN "block" ELSE "endlevel"
    /\ UNCHANGED <<shape, data, attrs, args, levels, i, log, built>>
    /\ UNCHANGED vvars
    /\ UNCHANGED tvars
    /\ UNCHANGED wvars
    /\ UNCHANGED zvars
    /\ UNCHANGED lvars

\* Return of block_filter_to_pyramid into the loop over the levels
EndLevel ==
    /\ pc = "endlevel"
    /\ attrs' = IF i = 0
                THEN [attrs EXCEPT !.image_min = image_min, !.image_max = image_max]
                ELSE attrs
    /\ i' = i + 1
    /\ IF i + 1 < levels
       THEN /\ pc' = "level"
            /\ built' = built
       ELSE /\ pc' = "returned"
            /\ built' = args
    /\ UNCHANGED <<shape, data, pyramid, args, levels, row, col, index,
                   image_min, image_max, emitted, log, halo>>
    /\ UNCHANGED vvars
    /\ UNCHANGED tvars
    /\ UNCHANGED wvars
    /\ UNCHANGED zvars
    /\ UNCHANGED lvars

\* An h5py operation of the build raises: the exception leaves the with block,
\* which closes the file with what has been written so far.
Abort ==
    /\ pc \in {"level", "block", "endlevel"}
    /\ pc' = "failed"
    /\ UNCHANGED <<shape, data, attrs, pyramid, args, levels, i, row, col, index,
                   image_min, image_max, emitted, log, halo, built>>
    /\ UNCHANGED vvars
    /\ UNCHANGED tvars
    /\ UNCHANGED wvars
    /\ UNCHANGED zvars
    /\ UNCHANGED lvars

NextBuild ==
    \/ \E a \in Args : Call(a)
    \/ BeginLevel
    \/ Block
    \/ EndLevel
    \/ Abort

SpecBuild == InitBuild /\ [][NextBuild]_vars

\* ------------------------------------------------------------------------
\* generate_pyramid on rasters of any rank
\* ------------------------------------------------------------------------

\* Rasters whose rank is neither 2 nor 3 (rank 0 is left out: max(()) raises
\* on the first line of the with block)
MalformedShapes ==
    {<<N>> : N \in 1 .. MaxDim} \cup {<<M, N, 3, 1>> : M \in 1 .. 2, N \in 1 .. MaxDim}

\* Pixel values of a raster of any rank, by the first two indices (a rank-1
\* raster has one column)
RastersOfRank(sh) ==
    IF Len(sh) = 1
    THEN {[p \in Coords(sh[1], 1) |-> IF p = sp THEN v ELSE 1] :
             sp \in Coords(sh[1], 1), v \in {0, 2}}
    ELSE Rasters(sh)

InitRank ==
    /\ shape \in Shapes \cup MalformedShapes
    /\ data \in RastersOfRank(shape)
    /\ attrs = [max_level |-> None, image_min |-> None, image_max |-> None]
    /\ pyramid = [exists |-> FALSE, levels |-> <<>>]
    /\ pc = "idle"
    /\ args = NoArgs
    /\ levels = 0
    /\ i = 0
    /\ row = 0
    /\ col = 0
    /\ index = 0
    /\ image_min = None
    /\ image_max = None
    /\ emitted = <<>>
    /\ log = ""
    /\ halo = NoHalo
    /\ built = NoArgs
    /\ NoItem
    /\ NoTone
    /\ NoWindow
    /\ NoView
    /\ NoLevels

SpecRank == InitRank /\ [][NextBuild]_vars

\* ------------------------------------------------------------------------
\* Properties of the builder
\* ------------------------------------------------------------------------

AllValues == {data[p] : p \in DOMAIN data}

\* Level lv is named by max_level but has no dataset
LevelMissing == \E lv \in 1 .. attrs.max_level : lv > Len(pyramid.levels)

\* A level dataset has pixels that no block has written
PartlyWritten ==
    \E lv \in 1 .. Len(pyramid.levels) :
        \E p \in DOMAIN pyramid.levels[lv].px : pyramid.levels[lv].px[p] = Unwritten

\* C1: a second generate_pyramid call with the arguments of the call that
\* built the pyramid changes neither the level datasets nor the attributes,
\* emits no progress notification and returns through "Pyramid already exists".
C1_SecondCallChangesNothing ==
    [][(/\ pc = "returned"
        /\ built # NoArgs
        /\ args = built
        /\ args' = built)
       => (/\ pyramid' = pyramid
           /\ attrs' = attrs
           /\ emitted' = <<>>
           /\ log' = "Pyramid already exists"
           /\ pc' = "returned")]_vars

C1_Witness ==
    /\ pc = "returned"
    /\ built # NoArgs
    /\ args = built
    /\ log = "Pyramid already exists"
    /\ Len(pyramid.levels) = 2

\* C2: after a build that was aborted by an error the file is not taken for a
\* complete pyramid: no level named by max_level is absent or partly written,
\* neither right after the failure nor when a later call has returned through
\* "Pyramid already exists".
C2_NoPartialPyramidExposed ==
    (\/ pc = "failed"
     \/ (pc = "returned" /\ log = "Pyramid already exists" /\ built = NoArgs))
        => ~(LevelMissing \/ PartlyWritten)

\* C3: the halo of every block is min(radius, distance from the block to the
\* image edge) on each of its four sides, and every pixel a block writes is
\* the pixel of the filter applied to the whole source image.
C3_HaloIsClippedRadius ==
    (pc \in {"block", "endlevel"} /\ index > 0) =>
        /\ halo.m_low = Min(args.radius, halo.row)
        /\ halo.m_hgh = Min(args.radius, Max(halo.M - (halo.row + args.blocksize), 0))
        /\ halo.n_low = Min(args.radius, halo.col)
        /\ halo.n_hgh = Min(args.radius, Max(halo.N - (halo.col + args.blocksize), 0))
        /\ \A lv \in 1 .. Len(pyramid.levels) :
              \A p \in DOMAIN pyramid.levels[lv].px :
                 LET v == pyramid.levels[lv].px[p]
                     src == IF lv = 1 THEN shape ELSE pyramid.levels[lv - 1].shape
                 IN v # Unwritten =>
                       /\ v[3] = FilterTaps(v[1], 0, src[1], args.radius)
                       /\ v[4] = FilterTaps(v[2], 0, src[2], args.radius)

\* C4: every level has ceil(h/2) rows and ceil(w/2) columns of its source, and
\* the channel dimension of its source when there is one.
C4_LevelShape ==
    \A lv \in 1 .. Len(pyramid.levels) :
        LET src == IF lv = 1 THEN shape ELSE pyramid.levels[lv - 1].shape
            sh == pyramid.levels[lv].shape
        IN /\ sh[1] = CeilDiv(src[1], 2)
           /\ sh[2] = CeilDiv(src[2], 2)
           /\ Len(sh) = Len(src)
           /\ (Len(src) = 3 => sh[3] = src[3])

C4_Witness ==
    /\ Len(pyramid.levels) = 2
    /\ Len(shape) = 3
    /\ shape[1] % 2 = 1
    /\ shape[2] % 2 = 0
    /\ pyramid.levels[2].shape[3] = shape[3]

RECURSIVE Power(_, _)
Power(b, e) == IF e = 0 THEN 1 ELSE b * Power(b, e - 1)

\* The number of floor divisions by downsample that bring length to max_length
\* or below
LevelsNeeded(length, max_length, downsample) ==
    SetMin({k \in 0 .. length : length \div Power(downsample, k) <= max_length})

C7_MinMaxOfOriginal ==
    /\ (pc = "endlevel" /\ i = 0) =>
          (image_min = SetMin(AllValues) /\ image_max = SetMax(AllValues))
    /\ (built # NoArgs) =>
          (attrs.image_min = SetMin(AllValues) /\ attrs.image_max = SetMax(AllValues))

C7_Witness ==
    /\ built # NoArgs
    /\ args = built
    /\ Cardinality(DOMAIN data) > args.blocksize * args.blocksize
    /\ attrs.image_max = 2
    /\ data[<<shape[1] - 1, shape[2] - 1>>] = 2

\* ------------------------------------------------------------------------
\* Pure parts of the image item
\* ------------------------------------------------------------------------
MaxViewDim == 4
MaxZoom == 1
MaxTone == 1
Margin == 2

\* ViewWidget.zoom_factor, the zoom_factor of every update_image_window call
zoom_factor == 2

\* int(a / s) for an integer a and s > 0: Python's int() rounds towards zero
Trunc(a, s) == IF a >= 0 THEN a \div s ELSE -((-a) \div s)

\* Shape of the raster of level lv of image_file: level 0 is the original, the
\* others are as generate_pyramid makes them
RECURSIVE LevelShape(_)
LevelShape(lv) == IF lv = 0 THEN img ELSE TargetShape(LevelShape(lv - 1))

\* pyramid_level[r0 : r1, c0 : c1] of level lv (all bounds >= 0): the block of
\* the pixels <<lv, r, c>> with r0 <= r < r1 and c0 <= c < c1, clipped to the
\* raster
ReadRaster(lv, r0, r1, c0, c1) ==
    LET rs == SliceBounds(r0, r1, LevelShape(lv)[1])
        cs == SliceBounds(c0, c1, LevelShape(lv)[2])
    IN [lv |-> lv, r0 |-> rs.lo, r1 |-> rs.hi, c0 |-> cs.lo, c1 |-> cs.hi]

\* Rows and columns of a block
BlockH(b) == b.r1 - b.r0
BlockW(b) == b.c1 - b.c0

\* The value stored for pixel <<level, row, column>> of image_file
PixelValue(q) == (q[1] + q[2] + q[3]) % (MaxTone + 1)

\* The outcome of a numpy call that raises
Raise == [h |-> -1, w |-> -1]

RECURSIVE SumH(_)
SumH(blocks) == IF Len(blocks) = 0 THEN 0 ELSE BlockH(blocks[1]) + SumH(Tail(blocks))

RECURSIVE SumW(_)
SumW(strips) == IF Len(strips) = 0 THEN 0 ELSE strips[1].w + SumW(Tail(strips))

\* np.concatenate(y_arrays, axis=0): the blocks one below the other; raises on
\* an empty list and on blocks of different widths
ConcatAxis0(y_arrays) ==
    IF Len(y_arrays) = 0 THEN Raise
    ELSE IF \E k \in DOMAIN y_arrays : BlockW(y_arrays[k]) # BlockW(y_arrays[1])
    THEN Raise
    ELSE [h |-> SumH(y_arrays), w |-> BlockW(y_arrays[1]), blocks |-> y_arrays]

\* np.concatenate(x_arrays, axis=1): the strips side by side; raises on an
\* empty list and on strips of different heights
ConcatAxis1(x_arrays) ==
    IF Len(x_arrays) = 0 THEN Raise
    ELSE IF \E k \in DOMAIN x_arrays : x_arrays[k].h # x_arrays[1].h
    THEN Raise
    ELSE [h |-> x_arrays[1].h, w |-> SumW(x_arrays), strips |-> x_arrays]

RECURSIVE StripPixel(_, _, _)
\* Pixel in row r, column c of a sequence of blocks one below the other
StripPixel(blocks, r, c) ==
    IF r < BlockH(blocks[1])
    THEN <<blocks[1].lv, blocks[1].r0 + r, blocks[1].c0 + c>>
    ELSE StripPixel(Tail(blocks), r - BlockH(blocks[1]), c)

RECURSIVE ArrayPixelIn(_, _, _)
ArrayPixelIn(strips, r, c) ==
    IF c < strips[1].w
    THEN StripPixel(strips[1].blocks, r, c)
    ELSE ArrayPixelIn(Tail(strips), r, c - strips[1].w)

\* Pixel in row r, column c of a stitched array
ArrayPixel(a, r, c) == ArrayPixelIn(a.strips, r, c)

\* Faulty variant: a zoom level above max_zoom is taken as it is
PyramidLevel_NoUpperClamp(new_zoom_level) ==
    IF new_zoom_level <= 0 THEN 0 ELSE new_zoom_level

\* The raster the crop is taken from, 0 being the original image
PyramidLevel(new_zoom_level) ==
    IF new_zoom_level <= 0 THEN 0
    ELSE IF new_zoom_level > max_zoom
         THEN (IF max_zoom = 0 THEN 0 ELSE max_zoom)
         ELSE new_zoom_level

\* x_tile_min_scene .. y_tile_max_scene of _calculate_crop
TileRange(c, t) ==
    [x_min |-> Max(c.left, 0) \div t, x_max |-> c.right \div t,
     y_min |-> Max(c.top, 0) \div t, y_max |-> c.bottom \div t]

\* tiles_needed of _calculate_crop
TilesNeeded(tr) == (tr.x_min .. tr.x_max) \X (tr.y_min .. tr.y_max)

\* x_min_item, x_max_item, y_min_item, y_max_item of _calculate_crop: the tile
\* range mapped to item coordinates (scene / scale) and clipped to the raster
ItemBounds(tr, t, sc, lv) ==
    [x_min |-> Max(Trunc(tr.x_min * t, sc), 0),
     x_max |-> Min(Trunc((tr.x_max + 1) * t, sc), LevelShape(lv)[2]),
     y_min |-> Max(Trunc(tr.y_min * t, sc), 0),
     y_max |-> Min(Trunc((tr.y_max + 1) * t, sc), LevelShape(lv)[1])]

\* Faulty variant: cached tiles that are no longer needed go unnoticed
NewTiles_NoLength(cache, tr) ==
    \E k \in TilesNeeded(tr) : k \notin DOMAIN cache

\* new_tiles of _calculate_crop
NewTiles(cache, tr) ==
    \/ \E k \in TilesNeeded(tr) : k \notin DOMAIN cache
    \/ Cardinality(DOMAIN cache) # Cardinality(TilesNeeded(tr))

\* new_image_levels of _calculate_crop
NewImageLevels(shadow, mid, highlight) ==
    \/ shadow # current_shadow
    \/ mid # current_mid
    \/ highlight # current_highlight

\* "the tile starts after the image": the continue of _collect_processing_tiles
TileSkipped(lv, sc, t, x, y) ==
    \/ t * y > LevelShape(lv)[1] * sc
    \/ t * x > LevelShape(lv)[2] * sc

\* The block read for tile <<x, y>> when it is not in the cache
TileRead(lv, sc, t, x, y) ==
    ReadRaster(lv, Trunc(t * y, sc), Min(Trunc(t * (y + 1), sc), LevelShape(lv)[1]),
                   Trunc(t * x, sc), Min(Trunc(t * (x + 1), sc), LevelShape(lv)[2]))

\* y_arrays of column x: the blocks of the tiles x, y_min .. x, y_max that are
\* cached or read, in this order
YArrays(lv, cache, sc, t, tr, x) ==
    LET all == [k \in 1 .. (tr.y_max - tr.y_min + 1) |->
                   LET y == tr.y_min + k - 1
                   IN IF <<x, y>> \in DOMAIN cache THEN cache[<<x, y>>]
                      ELSE IF TileSkipped(lv, sc, t, x, y) THEN Raise
                      ELSE TileRead(lv, sc, t, x, y)]
    IN SelectSeq(all, LAMBDA b : b # Raise)

\* The tiles of the range that end up in new_crop_list
TilesKept(lv, cache, sc, t, tr) ==
    {k \in TilesNeeded(tr) :
        k \in DOMAIN cache \/ ~TileSkipped(lv, sc, t, k[1], k[2])}

\* The tiles of the range that are read from the raster
TilesRead(lv, cache, sc, t, tr) ==
    {k \in TilesNeeded(tr) :
        k \notin DOMAIN cache /\ ~TileSkipped(lv, sc, t, k[1], k[2])}

\* _collect_processing_tiles: the stitched array (Raise when a concatenate
\* raises), the tile cache it leaves and the tiles it has read
CollectProcessingTiles(lv, cache, sc, t, tr) ==
    LET cols == [k \in 1 .. (tr.x_max - tr.x_min + 1) |->
                    YArrays(lv, cache, sc, t, tr, tr.x_min + k - 1)]
        strips == [k \in DOMAIN cols |->
                      IF Len(cols[k]) = 0 THEN Raise ELSE ConcatAxis0(cols[k])]
        failed == {k \in DOMAIN cols : Len(cols[k]) # 0 /\ strips[k] = Raise}
        x_arrays == SelectSeq(strips, LAMBDA b : b # Raise)
        new_crop == IF failed # {} THEN Raise ELSE ConcatAxis1(x_arrays)
        \* a concatenate that raises leaves the cache without the popped tiles
        popped == IF failed = {} THEN TilesNeeded(tr)
                  ELSE {k \in TilesNeeded(tr) : k[1] <= tr.x_min + SetMin(failed) - 1}
        kept == TilesKept(lv, cache, sc, t, tr)
    IN [crop |-> new_crop,
        cache |-> IF new_crop = Raise
                  THEN [k \in DOMAIN cache \ popped |-> cache[k]]
                  ELSE [k \in kept |->
                           IF k \in DOMAIN cache THEN cache[k]
                           ELSE TileRead(lv, sc, t, k[1], k[2])],
        reads |-> IF failed = {} THEN TilesRead(lv, cache, sc, t, tr)
                  ELSE {k \in TilesRead(lv, cache, sc, t, tr) :
                           k[1] <= tr.x_min + SetMin(failed) - 1}]

\* An index k of a numpy/h5py slice on an axis of length n: a negative index
\* counts from the end
PyIndex(k, n) == IF k < 0 THEN Max(k + n, 0) ELSE Min(k, n)

\* window_crop of _calculate_crop: the viewport c in item coordinates
WindowCrop(lv, c, sc) ==
    ReadRaster(lv, PyIndex(Trunc(c.top, sc), LevelShape(lv)[1]),
                   PyIndex(Trunc(c.bottom, sc), LevelShape(lv)[1]),
                   PyIndex(Trunc(c.left, sc), LevelShape(lv)[2]),
                   PyIndex(Trunc(c.right, sc), LevelShape(lv)[2]))

\* The pixel values of a block and of a stitched array
BlockValues(b) ==
    {PixelValue(<<b.lv, p[1], p[2]>>) : p \in (b.r0 .. b.r1 - 1) \X (b.c0 .. b.c1 - 1)}

ImageValues(image) ==
    UNION {UNION {BlockValues(image.strips[k].blocks[j]) :
                     j \in DOMAIN image.strips[k].blocks} :
              k \in DOMAIN image.strips}

\* _calculate_auto_image_levels (image.min() raises on an empty image)
CalculateAutoImageLevels(image) ==
    LET shadow == SetMin(BlockValues(image))
        highlight == SetMax(BlockValues(image))
        mid == Trunc(highlight - shadow, 2) + shadow
    IN [shadow |-> shadow,
        mid |-> IF mid < shadow THEN shadow
                ELSE IF mid > highlight THEN highlight ELSE mid,
        highlight |-> highlight]

\* The array _compute_new_image_levels returns for the stitched crop image: a
\* crop of one colour is returned as it is, any other is the 8-bit image of
\* the crop under shadow, mid and highlight
ToneMapped(image, shadow, mid, highlight) ==
    IF Cardinality(ImageValues(image)) = 1
    THEN [image |-> image, mapped |-> FALSE, shadow |-> 0, mid |-> 0, highlight |-> 0]
    ELSE [image |-> image, mapped |-> TRUE,
          shadow |-> shadow, mid |-> mid, highlight |-> highlight]

\* "if shadow: self.current_shadow = shadow" of _compute_new_image_levels
SetIfTruthy(value, current) == IF value # 0 THEN value ELSE current

\* _make_display_tiles: a crop of fewer than display_tile_size rows and columns
\* is one display tile
MakeDisplayTiles(crop) == <<<<crop>>>>

\* The branch of _calculate_crop that recomputes the crop: `tiles` is what
\* _collect_processing_tiles has returned and left, win the window_crop
Recompute(base, tiles, win, shadow, mid, highlight, autoset_levels) ==
    LET auto == CalculateAutoImageLevels(win)
        s == IF autoset_levels THEN auto.shadow ELSE shadow
        m == IF autoset_levels THEN auto.mid ELSE mid
        h == IF autoset_levels THEN auto.highlight ELSE highlight
        collected == [base EXCEPT !.result = "raised", !.cache = tiles.cache,
                                  !.recomputed = TRUE, !.reads = tiles.reads]
        levelled == [collected EXCEPT !.shadow = SetIfTruthy(s, current_shadow),
                                      !.mid = SetIfTruthy(m, current_mid),
                                      !.highlight = SetIfTruthy(h, current_highlight)]
    IN IF tiles.crop = Raise
       THEN [base EXCEPT !.result = "raised", !.cache = tiles.cache,
                         !.recomputed = TRUE, !.reads = tiles.reads]
       ELSE IF autoset_levels /\ BlockValues(win) = {}
       THEN collected
       \* image.max() of _compute_new_image_levels raises on an empty crop
       ELSE IF tiles.crop.h = 0 \/ tiles.crop.w = 0
       THEN levelled
       ELSE [levelled EXCEPT !.result = "crop",
                             !.crop = ToneMapped(tiles.crop, s, m, h)]

\* _calculate_crop on the tile cache `cache` and the item scale sc that
\* update_image_window leaves
CalculateCrop(cache, sc, new_coordinates, new_zoom_level, shadow, mid, highlight, autoset_levels) ==
    LET t == processing_tile_size
        lv == PyramidLevel(new_zoom_level)
        tr == TileRange(new_coordinates, t)
        ib == ItemBounds(tr, t, sc, lv)
        base == [result |-> "None", crop |-> current_crop, cache |-> cache,
                 shadow |-> current_shadow, mid |-> current_mid,
                 highlight |-> current_highlight,
                 paint_x |-> ib.x_min, paint_y |-> ib.y_min,
                 recomputed |-> FALSE, reads |-> {}]
    IN IF ib.x_min >= ib.x_max \/ ib.y_min >= ib.y_max
       THEN base
       ELSE IF NewTiles(cache, tr) \/ NewImageLevels(shadow, mid, highlight)
                                   \/ autoset_levels
       THEN Recompute(base, CollectProcessingTiles(lv, cache, sc, t, tr),
                      WindowCrop(lv, new_coordinates, sc),
                      shadow, mid, highlight, autoset_levels)
       \* "new_crop = self.current_crop": the attribute is not there until a crop
       \* has been made
       ELSE IF current_crop = NoCrop
       THEN [base EXCEPT !.result = "raised"]
       ELSE [base EXCEPT !.result = "crop"]

\* ------------------------------------------------------------------------
\* update_image_window and its callers
\* ------------------------------------------------------------------------

\* update_image_window(new_coordinates, new_zoom_level, zoom_factor, new_shadow,
\* new_mid, new_highlight, autoset_levels); has_coordinates and has_zoom tell
\* whether the first two are given, a level of 0 stands for None as well
UpdateImageWindow(op, has_coordinates, new_coordinates, has_zoom, new_zoom_level, new_shadow, new_mid, new_highlight, autoset_levels) ==
    LET coords == IF has_coordinates THEN new_coordinates ELSE current_coordinates
        rescale == /\ has_zoom
                   /\ new_zoom_level >= 0
                   /\ new_zoom_level <= max_zoom
                   /\ max_zoom # 0
        sc == IF rescale THEN Power(zoom_factor, new_zoom_level) ELSE item_scale
        cache == IF rescale THEN <<>> ELSE current_crop_list
        zoom == IF has_zoom THEN new_zoom_level ELSE current_zoom_level
        shadow == IF ~autoset_levels /\ new_shadow = 0
                  THEN current_shadow ELSE new_shadow
        mid == IF ~autoset_levels /\ new_mid = 0 THEN current_mid ELSE new_mid
        highlight == IF ~autoset_levels /\ new_highlight = 0
                     THEN current_highlight ELSE new_highlight
    IN \E r \in {CalculateCrop(cache, sc, coords, zoom, shadow, mid, highlight,
                               autoset_levels)} :
       /\ current_coordinates' = coords
       /\ item_scale' = sc
       /\ current_zoom_level' = zoom
       /\ current_crop_list' = r.cache
       /\ paint_x_coord' = r.paint_x
       /\ paint_y_coord' = r.paint_y
       /\ current_shadow' = r.shadow
       /\ current_mid' = r.mid
       /\ current_highlight' = r.highlight
       /\ IF r.result = "crop"
          THEN /\ current_crop' = r.crop
               /\ pixmaps' = MakeDisplayTiles(r.crop)
          ELSE UNCHANGED <<current_crop, pixmaps>>
       /\ last' = [op |-> op, shadow |-> shadow, mid |-> mid,
                   highlight |-> highlight, cleared |-> rescale,
                   result |-> r.result, recomputed |-> r.recomputed,
                   reads |-> r.reads]
       /\ UNCHANGED <<img, max_zoom, processing_tile_size>>
       /\ UNCHANGED bvars
       /\ UNCHANGED tvars
       /\ UNCHANGED wvars

\* The tiles of the range that _collect_processing_tiles handles before tile f
TilesBefore(tr, f) ==
    {k \in TilesNeeded(tr) : k[1] < f[1] \/ (k[1] = f[1] /\ k[2] < f[2])}

\* update_image_window up to the call of _collect_processing_tiles: the item
\* scale, the tile cache and the zoom level it leaves, and the raster, the
\* tile range and the paint coordinates of _calculate_crop
BeforeCollect(coords, has_zoom, new_zoom_level) ==
    LET rescale == /\ has_zoom
                   /\ new_zoom_level >= 0
                   /\ new_zoom_level <= max_zoom
                   /\ max_zoom # 0
        sc == IF rescale THEN Power(zoom_factor, new_zoom_level) ELSE item_scale
        zoom == IF has_zoom THEN new_zoom_level ELSE current_zoom_level
        tr == TileRange(coords, processing_tile_size)
    IN [rescale |-> rescale, sc |-> sc, zoom |-> zoom,
        cache |-> IF rescale THEN <<>> ELSE current_crop_list,
        lv |-> PyramidLevel(zoom), tr |-> tr,
        ib |-> ItemBounds(tr, processing_tile_size, sc, PyramidLevel(zoom))]

\* update_image_window when the read of a tile from the raster raises (an
\* OSError of h5py): nothing catches it in _collect_processing_tiles,
\* _calculate_crop or update_image_window, so it leaves the call after the
\* assignments made before the read and the pops of the cached tiles handled
\* before the tile
UpdateImageWindowReadError(op, new_coordinates, has_zoom, new_zoom_level) ==
    \E b \in {BeforeCollect(new_coordinates, has_zoom, new_zoom_level)} :
       /\ ~(b.ib.x_min >= b.ib.x_max \/ b.ib.y_min >= b.ib.y_max)
       /\ \E f \in TilesRead(b.lv, b.cache, b.sc, processing_tile_size, b.tr) :
             \* no np.concatenate of an earlier column has raised
             /\ \A x \in b.tr.x_min .. f[1] - 1 :
                   \E ya \in {YArrays(b.lv, b.cache, b.sc, processing_tile_size,
                                      b.tr, x)} :
                       Len(ya) = 0 \/ ConcatAxis0(ya) # Raise
             /\ current_crop_list' =
                   [k \in DOMAIN b.cache \ TilesBefore(b.tr, f) |-> b.cache[k]]
             /\ last' = [op |-> op, shadow |-> current_shadow, mid |-> current_mid,
                         highlight |-> current_highlight, cleared |-> b.rescale,
                         result |-> "raised", recomputed |-> TRUE,
                         reads |-> TilesRead(b.lv, b.cache, b.sc,
                                             processing_tile_size, b.tr)
                                      \cap TilesBefore(b.tr, f),
                         failed_read |-> f]
       /\ current_coordinates' = new_coordinates
       /\ item_scale' = b.sc
       /\ current_zoom_level' = b.zoom
       /\ paint_x_coord' = b.ib.x_min
       /\ paint_y_coord' = b.ib.y_min
       /\ UNCHANGED <<img, max_zoom, processing_tile_size, current_crop, pixmaps,
                      current_shadow, current_mid, current_highlight>>
       /\ UNCHANGED bvars
       /\ UNCHANGED tvars
       /\ UNCHANGED wvars
       /\ UNCHANGED zvars
       /\ UNCHANGED lvars

\* The square viewport of side w at <<l, tp>>, in scene coordinates
Rect(l, tp, w) == [left |-> l, top |-> tp, right |-> l + w, bottom |-> tp + w]

\* Viewports as wide as the short side of the image: at the origin of the
\* image, at its last column, at its last row, left of the image and below it
ViewRects ==
    {Rect(0, 0, MaxViewDim - 1),
     Rect(MaxViewDim - 1, 0, MaxViewDim - 1),
     Rect(0, MaxViewDim - 1, MaxViewDim - 1),
     Rect(-MaxViewDim - Margin, 0, MaxViewDim - 1),
     Rect(0, MaxViewDim + Margin, MaxViewDim - 1)}

\* shadow <= mid <= highlight, as the level sliders keep them
ToneLevels ==
    {t \in (0 .. MaxTone) \X (0 .. MaxTone) \X (0 .. MaxTone) :
        t[1] <= t[2] /\ t[2] <= t[3]}

\* The item right after BaseImageGraphicsItem.__init__ on a file that
\* generate_pyramid has completed. The tile size of a pyramid, 512 for rasters
\* of thousands of pixels, is scaled down with the rasters to the largest item
\* scale, so that a raster still has several tiles and a tile at least one
\* pixel of every level.
InitView ==
    /\ img = <<MaxViewDim - 1, MaxViewDim>>
    /\ \E max_length \in 1 .. MaxViewDim, np \in BOOLEAN :
          /\ max_zoom = NumLevels(img, [NoArgs EXCEPT !.max_length = max_length,
                                                      !.downsample = 2,
                                                      !.no_pyramid = np])
          /\ max_zoom <= MaxZoom
          /\ processing_tile_size =
                IF np
                THEN Length(img) + Length(img) \div 10
                ELSE Power(2, MaxZoom)
    /\ item_scale = 1
    /\ current_zoom_level = max_zoom
    /\ current_coordinates = NoRect
    /\ current_crop_list = <<>>
    /\ current_crop = NoCrop
    /\ \E t \in ToneLevels :
          /\ current_shadow = t[1]
          /\ current_mid = t[2]
          /\ current_highlight = t[3]
    /\ paint_x_coord = None
    /\ paint_y_coord = None
    /\ pixmaps = <<>>
    /\ last = NoCall
    \* the builder is not looked at
    /\ shape = <<1, 1>>
    /\ data = [p \in Coords(1, 1) |-> 1]
    /\ attrs = [max_level |-> None, image_min |-> None, image_max |-> None]
    /\ pyramid = [exists |-> FALSE, levels |-> <<>>]
    /\ pc = "idle"
    /\ args = NoArgs
    /\ levels = 0
    /\ i = 0
    /\ row = 0
    /\ col = 0
    /\ index = 0
    /\ image_min = None
    /\ image_max = None
    /\ emitted = <<>>
    /\ log = ""
    /\ halo = NoHalo
    /\ built = NoArgs
    /\ NoTone
    /\ NoWindow
    /\ NoView
    /\ NoLevels

\* ViewWidget.setImage and ViewWidget._update_zoom:
\* update_image_window(new_coordinates=bounds, new_zoom_level=..., zoom_factor=...)
Zoom(c, z) ==
    /\ UpdateImageWindow("window", TRUE, c, TRUE, z, 0, 0, 0, FALSE)
    /\ UNCHANGED zvars
    /\ UNCHANGED lvars

\* mouseReleaseEvent, keyPressEvent, _onSliderReleased:
\* update_image_window(new_coordinates=bounds)
Pan(c) ==
    /\ current_coordinates # NoRect
    /\ UpdateImageWindow("window", TRUE, c, FALSE, 0, 0, 0, 0, FALSE)
    /\ UNCHANGED zvars
    /\ UNCHANGED lvars

\* ViewWidget.setImageLevels:
\* update_image_window(new_shadow=..., new_mid=..., new_highlight=...)
SetImageLevels(shadow, mid, highlight) ==
    /\ current_coordinates # NoRect
    /\ UpdateImageWindow("levels", FALSE, NoRect, FALSE, 0, shadow, mid, highlight,
                         FALSE)
    /\ UNCHANGED zvars
    /\ UNCHANGED lvars

\* autoSetImageLevelsInBounds: update_image_window(autoset_levels=True)
AutoSetImageLevelsInBounds ==
    /\ current_coordinates # NoRect
    /\ UpdateImageWindow("auto", FALSE, NoRect, FALSE, 0, 0, 0, 0, TRUE)
    /\ UNCHANGED zvars
    /\ UNCHANGED lvars

NextView ==
    \/ \E c \in ViewRects, z \in -1 .. max_zoom + 1 : Zoom(c, z)
    \/ \E c \in ViewRects : Pan(c)
    \/ \E t \in ToneLevels : SetImageLevels(t[1], t[2], t[3])
    \/ AutoSetImageLevelsInBounds

SpecView == InitView /\ [][NextView]_vars


\* ------------------------------------------------------------------------
\* Renders in which the read of a tile can fail
\* ------------------------------------------------------------------------

\* A render of ViewWidget._update_zoom or ViewWidget.setImage in which the
\* read of a tile fails
ZoomReadError(c, z) ==
    UpdateImageWindowReadError("window", c, TRUE, z)

\* A render of mouseReleaseEvent or keyPressEvent in which the read of a tile
\* fails
PanReadError(c) ==
    /\ current_coordinates # NoRect
    /\ UpdateImageWindowReadError("window", c, FALSE, 0)

NextRead ==
    \/ \E c \in ViewRects, z \in -1 .. max_zoom + 1 : Zoom(c, z)
    \/ \E c \in ViewRects : Pan(c)
    \/ \E c \in ViewRects, z \in -1 .. max_zoom + 1 : ZoomReadError(c, z)
    \/ \E c \in ViewRects : PanReadError(c)

SpecRead == InitView /\ [][NextRead]_vars

\* ------------------------------------------------------------------------
\* _compute_new_image_levels on crops given pixel by pixel
\* ------------------------------------------------------------------------
MaxCropRows == 2
MaxCropCols == 4
MaxValue == 3

\* A rational number n/d as <<n, d>> with d > 0
Rat(n, d) == IF d < 0 THEN <<-n, -d>> ELSE <<n, d>>
RatLess(a, b) == a[1] * b[2] < b[1] * a[2]
RatEq(a, b) == a[1] * b[2] = b[1] * a[2]
RatSub(a, b) == <<a[1] * b[2] - b[1] * a[2], a[2] * b[2]>>
RatDiv(a, b) == Rat(a[1] * b[2], a[2] * b[1])
RatMin(S) == CHOOSE x \in S : \A y \in S : ~RatLess(y, x)
RatMax(S) == CHOOSE x \in S : \A y \in S : ~RatLess(x, y)

\* gamma of _gamma_correct without "if gamma < 0.01: gamma = 0.01"
Gamma_NoFloor(mid) ==
    IF RatLess(mid, <<1, 2>>)
    THEN LET gamma == <<10 * mid[2] - 18 * mid[1], mid[2]>>
         IN IF RatLess(<<999, 100>>, gamma) THEN <<999, 100>> ELSE gamma
    ELSE IF RatLess(<<1, 2>>, mid)
    THEN <<2 * mid[2] - 2 * mid[1], mid[2]>>
    ELSE <<1, 1>>

\* gamma of _gamma_correct for the normalised mid
Gamma(mid) ==
    IF RatLess(mid, <<1, 2>>)
    THEN LET gamma == <<10 * mid[2] - 18 * mid[1], mid[2]>>
         IN IF RatLess(<<999, 100>>, gamma) THEN <<999, 100>> ELSE gamma
    ELSE IF RatLess(<<1, 2>>, mid)
    THEN LET gamma == <<2 * mid[2] - 2 * mid[1], mid[2]>>
         IN IF RatLess(gamma, <<1, 100>>) THEN <<1, 100>> ELSE gamma
    ELSE <<1, 1>>

\* "image = (image - shadow)/(highlight - shadow)" and the two clippings for
\* one pixel: a value in 0 .. 1, or nan for 0.0 / 0.0 (numpy divides by zero
\* without raising: +-inf is clipped, nan passes the comparisons)
ApplyShadowHighlight(value, shadow, highlight) ==
    LET num == RatSub(value, shadow)
        den == RatSub(highlight, shadow)
    IN IF den[1] = 0
       THEN IF num[1] = 0 THEN [nan |-> TRUE, x |-> <<0, 1>>]
            ELSE [nan |-> FALSE, x |-> IF num[1] > 0 THEN <<1, 1>> ELSE <<0, 1>>]
       ELSE LET q == RatDiv(num, den)
            IN [nan |-> FALSE,
                x |-> IF q[1] < 0 THEN <<0, 1>>
                      ELSE IF RatLess(<<1, 1>>, q) THEN <<1, 1>> ELSE q]

\* _gamma_correct for one pixel of the normalised image: x is the value after
\* shadow and highlight; "image ** gamma_correct" is applied when mid is not
\* 0.5 and keeps 0, 1 and the order of the values
GammaCorrect(value, shadow, mid, highlight) ==
    LET a == ApplyShadowHighlight(value, shadow, highlight)
    IN [nan |-> a.nan, x |-> a.x, gamma |-> Gamma(mid),
        powered |-> ~RatEq(mid, <<1, 2>>)]

\* pad_amt of _get_pad for an image of w columns
GetPad(w) == IF w % 4 > 0 THEN 4 - (w % 4) ELSE 0

\* _rescale_to_8_bit for the pixel q of the gamma-corrected image px: the
\* 8-bit value, the term of a power that is no rational number, or
\* "undefined" for the conversion of nan to uint8
RescaleTo8Bit(px, q) ==
    LET mx == RatMax({px[r].x : r \in DOMAIN px})
        mn == RatMin({px[r].x : r \in DOMAIN px})
    IN IF \E r \in DOMAIN px : px[r].nan
       THEN [kind |-> "undefined", v |-> None]
       ELSE IF RatEq(mx, mn)
       \* mx = 255, mn = 0: the value itself, cut to an integer
       THEN [kind |-> "uint8", v |-> IF RatEq(px[q].x, <<1, 1>>) THEN 1 ELSE 0]
       ELSE IF RatEq(px[q].x, mn) THEN [kind |-> "uint8", v |-> 0]
       ELSE IF RatEq(px[q].x, mx) THEN [kind |-> "uint8", v |-> 255]
       ELSE IF px[q].powered
       THEN [kind |-> "power", v |-> None, x |-> px[q].x, gamma |-> px[q].gamma,
             mn |-> mn, mx |-> mx]
       ELSE LET y == RatDiv(RatSub(px[q].x, mn), RatSub(mx, mn))
            IN [kind |-> "uint8", v |-> (255 * y[1]) \div y[2]]

\* The array _compute_new_image_levels returns for the crop image
ComputeNewImageLevels(image, shadow, mid, highlight) ==
    LET values == {image.px[q] : q \in DOMAIN image.px}
        mx == SetMax(values)
        mn == SetMin(values)
        d == mx - mn
        corrected == [q \in DOMAIN image.px |->
                        GammaCorrect(<<image.px[q] - mn, d>>, <<shadow - mn, d>>,
                                     <<mid - mn, d>>, <<highlight - mn, d>>)]
        pad == IF image.dim = 2 THEN GetPad(image.w) ELSE 0
    IN IF mx - mn = 0
       \* "all one color": image.astype(float) is returned as it is
       THEN [dtype |-> "float64", dim |-> image.dim, h |-> image.h, w |-> image.w,
             px |-> [q \in DOMAIN image.px |-> [kind |-> "float", v |-> image.px[q]]]]
       ELSE [dtype |-> "uint8", dim |-> image.dim, h |-> image.h, w |-> image.w + pad,
             px |-> [q \in Coords(image.h, image.w + pad) |->
                        IF q[2] >= image.w THEN [kind |-> "uint8", v |-> 0]
                        ELSE RescaleTo8Bit(corrected, q)]]

\* Crops of 2 dimensions (grey) and of 3 (a pixel value stands for all its
\* channels): one value everywhere but for the first and the last pixel
CropImages ==
    {[dim |-> dim, h |-> h, w |-> w,
      px |-> [q \in Coords(h, w) |->
                 IF q = <<0, 0>> THEN v
                 ELSE IF q = <<h - 1, w - 1>> THEN u ELSE b]] :
        dim \in {2, 3}, h \in {1, MaxCropRows}, w \in {1, MaxCropCols},
        v \in 0 .. MaxValue, u \in 0 .. MaxValue, b \in 0 .. MaxValue}

InitTone ==
    /\ tone_in \in [image : CropImages, shadow : 0 .. MaxValue, mid : 0 .. MaxValue,
                    highlight : 0 .. MaxValue]
    /\ tone_out = NoArray
    \* the item holds the levels of an earlier call
    /\ img = <<1, 1>>
    /\ max_zoom = 0
    /\ processing_tile_size = 1
    /\ item_scale = 1
    /\ current_zoom_level = 0
    /\ current_coordinates = NoRect
    /\ current_crop_list = <<>>
    /\ current_crop = NoCrop
    /\ \E t \in ToneLevels :
          /\ current_shadow = t[1]
          /\ current_mid = t[2]
          /\ current_highlight = t[3]
    /\ paint_x_coord = None
    /\ paint_y_coord = None
    /\ pixmaps = <<>>
    /\ last = NoCall
    \* the builder is not looked at
    /\ shape = <<1, 1>>
    /\ data = [p \in Coords(1, 1) |-> 1]
    /\ attrs = [max_level |-> None, image_min |-> None, image_max |-> None]
    /\ pyramid = [exists |-> FALSE, levels |-> <<>>]
    /\ pc = "idle"
    /\ args = NoArgs
    /\ levels = 0
    /\ i = 0
    /\ row = 0
    /\ col = 0
    /\ index = 0
    /\ image_min = None
    /\ image_max = None
    /\ emitted = <<>>
    /\ log = ""
    /\ halo = NoHalo
    /\ built = NoArgs
    /\ NoWindow
    /\ NoView
    /\ NoLevels

\* self._compute_new_image_levels(image, shadow, mid, highlight)
ComputeNewImageLevelsCall ==
    /\ tone_out = NoArray
    /\ tone_out' = ComputeNewImageLevels(tone_in.image, tone_in.shadow, tone_in.mid,
                                         tone_in.highlight)
    /\ current_shadow' = SetIfTruthy(tone_in.shadow, current_shadow)
    /\ current_mid' = SetIfTruthy(tone_in.mid, current_mid)
    /\ current_highlight' = SetIfTruthy(tone_in.highlight, current_highlight)
    /\ UNCHANGED <<img, max_zoom, processing_tile_size, item_scale,
                   current_zoom_level, current_coordinates, current_crop_list,
                   current_crop, paint_x_coord, paint_y_coord, pixmaps, last,
                   tone_in>>
    /\ UNCHANGED bvars
    /\ UNCHANGED wvars
    /\ UNCHANGED zvars
    /\ UNCHANGED lvars

NextTone ==
    \/ ComputeNewImageLevelsCall

SpecTone == InitTone /\ [][NextTone]_vars

\* ------------------------------------------------------------------------
\* MainWindow: opening an image with a Worker that runs generate_pyramid
\* ------------------------------------------------------------------------

MaxSide == 4097
MaxWorkers == 2
MaxQueue == 2

\* The defaults of generate_pyramid, which Worker.run calls without giving
\* blocksize, max_length, downsample or radius
DefaultBlocksize == 4096
DefaultMaxLength == 1024
DefaultDownsample == 2
DefaultRadius == 3

\* The keyword arguments generate_pyramid receives from a Worker
WorkerArgs(np) ==
    [blocksize |-> DefaultBlocksize, radius |-> DefaultRadius,
     downsample |-> DefaultDownsample, max_length |-> DefaultMaxLength,
     no_pyramid |-> np]

Files == {"a.h5", "b.h5"}

\* A raster file before any build: no attributes, no group "pyramid"
NewFile(sh) ==
    [shape |-> sh, max_level |-> None, has_min_max |-> FALSE, group |-> FALSE,
     levels |-> <<>>]

\* QProgressBar(): range 0..100 and no value
NewProgressBar == [minimum |-> 0, maximum |-> 100, value |-> None]

\* Worker(fn=generate_pyramid, file_path=f, image_key=..., no_pyramid=np),
\* not started by the pool yet; sent lists the signals the worker has emitted
NewWorker(f, np) ==
    [file |-> f, no_pyramid |-> np, pc |-> "queued", levels |-> 0, i |-> 0,
     row |-> 0, col |-> 0, index |-> 0, sent |-> <<>>]

\* input_image.shape of the call of block_filter_to_pyramid for level lv
InputShape(f, lv) ==
    IF InputImage(lv) = 0 THEN h5[f].shape ELSE h5[f].levels[InputImage(lv)].shape

\* A signal emitted by worker w: it is queued for the thread of the receiver
Emit(w, sig) == Append(events, [w |-> w] @@ sig)

InitOpen ==
    /\ h5 = [f \in Files |-> NewFile(<<MaxSide, MaxSide>>)]
    /\ workers = <<>>
    /\ events = <<>>
    /\ image_file = NoFile
    /\ no_pyramid = FALSE
    /\ progress = NoProgress
    /\ loaded = NoImage
    /\ app = "running"
    /\ NoItem
    /\ NoTone
    /\ NoView
    /\ NoLevels
    \* the builder is looked at through the workers
    /\ shape = <<1, 1>>
    /\ data = [p \in Coords(1, 1) |-> 1]
    /\ attrs = [max_level |-> None, image_min |-> None, image_max |-> None]
    /\ pyramid = [exists |-> FALSE, levels |-> <<>>]
    /\ pc = "idle"
    /\ args = NoArgs
    /\ levels = 0
    /\ i = 0
    /\ row = 0
    /\ col = 0
    /\ index = 0
    /\ image_min = None
    /\ image_max = None
    /\ emitted = <<>>
    /\ log = ""
    /\ halo = NoHalo
    /\ built = NoArgs

\* What no action of the main window or of a worker changes
OpenFrame ==
    /\ UNCHANGED bvars
    /\ UNCHANGED vvars
    /\ UNCHANGED tvars
    /\ UNCHANGED zvars
    /\ UNCHANGED lvars

\* MainWindow._openImage(filename) with the answer np of the dialog (Yes:
\* FALSE, No: TRUE) and no unsaved changes: closes the image on display, makes
\* a new progress bar and hands a new Worker to the thread pool. Nothing
\* looks at the workers that are still running.
OpenImage(f, np) ==
    /\ app = "running"
    /\ Len(workers) < MaxWorkers
    /\ loaded' = NoImage
    /\ image_file' = f
    /\ no_pyramid' = np
    /\ progress' = NewProgressBar
    /\ workers' = Append(workers, NewWorker(f, np))
    /\ UNCHANGED <<h5, events, app>>
    /\ OpenFrame

\* generate_pyramid up to "if levels == 0": the file is opened, the number of
\* levels computed and max_level written; without levels the minimum and the
\* maximum are written and the call returns
WorkerStart(w) ==
    /\ app = "running"
    /\ workers[w].pc = "queued"
    /\ \E n \in {NumLevels(h5[workers[w].file].shape, WorkerArgs(workers[w].no_pyramid))} :
          /\ h5' = [h5 EXCEPT ![workers[w].file] =
                       [@ EXCEPT !.max_level = n,
                                 !.has_min_max = IF n = 0 THEN TRUE ELSE @]]
          /\ workers' = [workers EXCEPT ![w].levels = n,
                                        ![w].pc = IF n = 0 THEN "done" ELSE "check"]
    /\ UNCHANGED <<events, image_file, no_pyramid, progress, loaded, app>>
    /\ OpenFrame

\* if "pyramid" in h5_image: return
WorkerCheck(w) ==
    /\ app = "running"
    /\ workers[w].pc = "check"
    /\ workers' = [workers EXCEPT ![w].pc =
                      IF h5[workers[w].file].group THEN "done" ELSE "create"]
    /\ UNCHANGED <<h5, events, image_file, no_pyramid, progress, loaded, app>>
    /\ OpenFrame

\* h5_image.create_group("pyramid"), which raises ValueError when the group
\* exists
WorkerCreate(w) ==
    /\ app = "running"
    /\ workers[w].pc = "create"
    /\ IF h5[workers[w].file].group
       THEN /\ workers' = [workers EXCEPT ![w].pc = "raised"]
            /\ h5' = h5
       ELSE /\ workers' = [workers EXCEPT ![w].pc = "level", ![w].i = 0]
            /\ h5' = [h5 EXCEPT ![workers[w].file].group = TRUE]
    /\ UNCHANGED <<events, image_file, no_pyramid, progress, loaded, app>>
    /\ OpenFrame

\* block_filter_to_pyramid up to the loop over the blocks: the dataset of the
\* level is created and progress (0, total) emitted
WorkerBeginLevel(w) ==
    /\ app = "running"
    /\ workers[w].pc = "level"
    /\ Len(events) < MaxQueue
    /\ \E sh \in {InputShape(workers[w].file, workers[w].i + 1)} :
       \E sig \in {[sig |-> "progress", index |-> 0,
                    total |-> Total(sh[1], sh[2], DefaultBlocksize),
                    level |-> workers[w].i + 1, row |-> None, col |-> None]} :
          /\ h5' = [h5 EXCEPT ![workers[w].file].levels =
                       Append(@, [shape |-> TargetShape(sh), written |-> {}])]
          /\ workers' = [workers EXCEPT ![w].pc = "block", ![w].row = 0,
                                        ![w].col = 0, ![w].index = 0,
                                        ![w].sent = Append(@, sig)]
          /\ events' = Emit(w, sig)
    /\ UNCHANGED <<image_file, no_pyramid, progress, loaded, app>>
    /\ OpenFrame

\* One iteration of the loop over the blocks: the block is written, index
\* incremented and progress (index, total) emitted
WorkerBlock(w) ==
    /\ app = "running"
    /\ workers[w].pc = "block"
    /\ Len(events) < MaxQueue
    /\ \E sh \in {InputShape(workers[w].file, workers[w].i + 1)} :
       \E sig \in {[sig |-> "progress", index |-> workers[w].index + 1,
                    total |-> Total(sh[1], sh[2], DefaultBlocksize),
                    level |-> workers[w].i + 1,
                    row |-> workers[w].row, col |-> workers[w].col]} :
          /\ h5' = [h5 EXCEPT ![workers[w].file].levels[workers[w].i + 1].written =
                       @ \cup {<<workers[w].row, workers[w].col>>}]
          /\ workers' =
                [workers EXCEPT
                   ![w].index = @ + 1,
                   ![w].sent = Append(@, sig),
                   ![w].col = IF @ + DefaultBlocksize < sh[2]
                              THEN @ + DefaultBlocksize ELSE 0,
                   ![w].row = IF workers[w].col + DefaultBlocksize < sh[2]
                              THEN @ ELSE @ + DefaultBlocksize,
                   ![w].pc = IF \/ workers[w].col + DefaultBlocksize < sh[2]
                                \/ workers[w].row + DefaultBlocksize < sh[1]
                             THEN "block" ELSE "endlevel"]
          /\ events' = Emit(w, sig)
    /\ UNCHANGED <<image_file, no_pyramid, progress, loaded, app>>
    /\ OpenFrame

\* Return of block_filter_to_pyramid into the loop over the levels: after
\* level 1 the minimum and the maximum are written
WorkerEndLevel(w) ==
    /\ app = "running"
    /\ workers[w].pc = "endlevel"
    /\ h5' = IF workers[w].i = 0
             THEN [h5 EXCEPT ![workers[w].file].has_min_max = TRUE]
             ELSE h5
    /\ workers' = [workers EXCEPT
                     ![w].i = @ + 1,
                     ![w].pc = IF workers[w].i + 1 < workers[w].levels
                               THEN "level" ELSE "done"]
    /\ UNCHANGED <<events, image_file, no_pyramid, progress, loaded, app>>
    /\ OpenFrame

\* An h5py operation of the build raises (an OSError): the exception leaves
\* generate_pyramid with what has been written so far
WorkerFail(w) ==
    /\ app = "running"
    /\ workers[w].pc \in {"check", "create", "level", "block", "endlevel"}
    /\ workers' = [workers EXCEPT ![w].pc = "raised"]
    /\ UNCHANGED <<h5, events, image_file, no_pyramid, progress, loaded, app>>
    /\ OpenFrame

\* The except and finally clauses of Worker.run: finished is emitted, without
\* data, whether generate_pyramid returned or raised. After a raise the
\* ChildProcessError leaves run; nothing catches it, and PyQt either prints it
\* and goes on or ends the process with qFatal.
WorkerFinally(w) ==
    /\ app = "running"
    /\ workers[w].pc \in {"done", "raised"}
    /\ Len(events) < MaxQueue
    /\ \E sig \in {[sig |-> "finished"]} :
          /\ workers' = [workers EXCEPT
                           ![w].pc = IF @ = "done" THEN "finished" ELSE "failed",
                           ![w].sent = Append(@, sig)]
          /\ events' = Emit(w, sig)
    /\ app' \in IF workers[w].pc = "raised" THEN {"running", "aborted"} ELSE {"running"}
    /\ UNCHANGED <<h5, image_file, no_pyramid, progress, loaded>>
    /\ OpenFrame

\* MainWindow._update_progress(progress), the slot of the progress signal
UpdateProgress ==
    /\ app = "running"
    /\ events # <<>>
    /\ Head(events).sig = "progress"
    /\ events' = Tail(events)
    /\ progress' = [minimum |-> 0, maximum |-> Head(events).total,
                    value |-> Head(events).index]
    /\ UNCHANGED <<h5, workers, image_file, no_pyramid, loaded, app>>
    /\ OpenFrame

\* MainWindow._load_image(), the slot of the finished signal: it opens
\* self.image_file, whatever file the worker that finished has built, and
\* hands it to the view. h5py.File(None) and a missing attribute image_min
\* raise in the slot, which PyQt prints or answers with qFatal.
LoadImage ==
    /\ app = "running"
    /\ events # <<>>
    /\ Head(events).sig = "finished"
    /\ events' = Tail(events)
    /\ progress' = [progress EXCEPT !.minimum = 0, !.maximum = 0]
    /\ IF image_file = NoFile \/ ~h5[image_file].has_min_max
       THEN /\ loaded' = loaded
            /\ app' \in {"running", "aborted"}
       ELSE /\ loaded' = [image_file |-> image_file, no_pyramid |-> no_pyramid,
                          max_level |-> h5[image_file].max_level,
                          by |-> Head(events).w,
                          build |-> workers[Head(events).w].pc]
            /\ app' = app
    /\ UNCHANGED <<h5, workers, image_file, no_pyramid>>
    /\ OpenFrame

\* MainWindow._closeImageAction() from the menu, enabled once an image is
\* loaded
CloseImage ==
    /\ app = "running"
    /\ loaded # NoImage
    /\ loaded' = NoImage
    /\ image_file' = NoFile
    /\ UNCHANGED <<h5, workers, events, no_pyramid, progress, app>>
    /\ OpenFrame

NextOpen ==
    \/ \E f \in Files, np \in BOOLEAN : OpenImage(f, np)
    \/ \E w \in DOMAIN workers : WorkerStart(w)
    \/ \E w \in DOMAIN workers : WorkerCheck(w)
    \/ \E w \in DOMAIN workers : WorkerCreate(w)
    \/ \E w \in DOMAIN workers : WorkerBeginLevel(w)
    \/ \E w \in DOMAIN workers : WorkerBlock(w)
    \/ \E w \in DOMAIN workers : WorkerEndLevel(w)
    \/ \E w \in DOMAIN workers : WorkerFail(w)
    \/ \E w \in DOMAIN workers : WorkerFinally(w)
    \/ UpdateProgress
    \/ LoadImage
    \/ CloseImage

SpecOpen == InitOpen /\ [][NextOpen]_vars


\* ------------------------------------------------------------------------
\* ViewWidget: setImage and the wheel events
\* ------------------------------------------------------------------------

\* Side of the viewport of the view, in pixels
ViewportSide == 4

RECURSIVE Gcd(_, _)
Gcd(a, b) == IF b = 0 THEN a ELSE Gcd(b, a % b)

\* The rational n/d in lowest terms
RatNorm(n, d) == <<n \div Gcd(n, d), d \div Gcd(n, d)>>

\* fitInView(base_image_item, Qt.KeepAspectRatio): the largest scale at which
\* the bounding rectangle of the item fits the viewport
FitInView == RatNorm(ViewportSide, Max(img[1], img[2]))

\* self.scale(zoom_factor, zoom_factor) and self.scale(1/zoom_factor, 1/zoom_factor)
ScaleBy(sc, up) ==
    IF up THEN RatNorm(sc[1] * zoom_factor, sc[2])
    ELSE RatNorm(sc[1], sc[2] * zoom_factor)

\* Width and height of mapToScene(viewport().geometry()).boundingRect()
BoundsSide(sc) == RatNorm(ViewportSide * sc[2], sc[1])

\* The bounds of the viewport scrolled to the scene point o, as
\* update_image_window reads them (int() of each edge)
Bounds(sc, o) ==
    [left |-> o[1], top |-> o[2],
     right |-> Trunc(o[1] * BoundsSide(sc)[2] + BoundsSide(sc)[1], BoundsSide(sc)[2]),
     bottom |-> Trunc(o[2] * BoundsSide(sc)[2] + BoundsSide(sc)[1], BoundsSide(sc)[2])]

\* scene.width() and scene.height() after setSceneRect in setImage
SceneWidth == img[2] + Margin
SceneHeight == img[1] + Margin

\* Scene points the viewport is scrolled to: the corner of the scene, the
\* origin of the image and a point inside it
ViewOrigins == {<<-Margin, -Margin>>, <<0, 0>>, <<MaxViewDim - 1, 1>>}

\* The angleDelta().y() of a wheel event
WheelDeltas == {-120, 0, 120}

\* "if bounds.height() < 1 or bounds.width() < 1: return"
ZoomInRefused(sc) == RatLess(BoundsSide(sc), <<1, 1>>)

\* "if bounds.width() > self.scene.width() and bounds.height() > self.scene.height(): return"
ZoomOutRefused(sc) ==
    /\ RatLess(<<SceneWidth, 1>>, BoundsSide(sc))
    /\ RatLess(<<SceneHeight, 1>>, BoundsSide(sc))

InitWheel ==
    /\ img = <<MaxViewDim - 1, MaxViewDim>>
    /\ \E max_length \in 1 .. MaxViewDim, np \in BOOLEAN :
          /\ max_zoom = NumLevels(img, [NoArgs EXCEPT !.max_length = max_length,
                                                      !.downsample = 2,
                                                      !.no_pyramid = np])
          /\ max_zoom <= MaxZoom
          /\ processing_tile_size =
                IF np
                THEN Length(img) + Length(img) \div 10
                ELSE Power(2, MaxZoom)
    /\ item_scale = 1
    /\ current_zoom_level = max_zoom
    /\ current_coordinates = NoRect
    /\ current_crop_list = <<>>
    /\ current_crop = NoCrop
    /\ \E t \in ToneLevels :
          /\ current_shadow = t[1]
          /\ current_mid = t[2]
          /\ current_highlight = t[3]
    /\ paint_x_coord = None
    /\ paint_y_coord = None
    /\ pixmaps = <<>>
    /\ last = NoCall
    \* the builder is not looked at
    /\ shape = <<1, 1>>
    /\ data = [p \in Coords(1, 1) |-> 1]
    /\ attrs = [max_level |-> None, image_min |-> None, image_max |-> None]
    /\ pyramid = [exists |-> FALSE, levels |-> <<>>]
    /\ pc = "idle"
    /\ args = NoArgs
    /\ levels = 0
    /\ i = 0
    /\ row = 0
    /\ col = 0
    /\ index = 0
    /\ image_min = None
    /\ image_max = None
    /\ emitted = <<>>
    /\ log = ""
    /\ halo = NoHalo
    /\ built = NoArgs
    /\ NoTone
    /\ NoWindow
    /\ NoLevels
    \* the view before setImage
    /\ view_zoom_level = 0
    /\ view_scale = <<1, 1>>
    /\ last_wheel = NoWheel

\* ViewWidget.setImage from the making of the item on: the view takes the zoom
\* level of the item, fits the item, scrolls to the corner of the scene and
\* has the item render the viewport
SetImage ==
    /\ last.op = "none"
    /\ view_zoom_level' = current_zoom_level
    /\ view_scale' = FitInView
    /\ last_wheel' = NoWheel
    /\ UNCHANGED lvars
    /\ UpdateImageWindow("window", TRUE, Bounds(FitInView, <<-Margin, -Margin>>),
                         TRUE, current_zoom_level, 0, 0, 0, FALSE)

\* ViewWidget.wheelEvent -> _update_zoom(pt) with pt.y() = y on a view that
\* shows an image; o is where the zoom leaves the viewport
WheelEvent(y, o) ==
    /\ last.op # "none"
    /\ UNCHANGED lvars
    /\ \E refused \in {IF y > 0 THEN ZoomInRefused(view_scale)
                       ELSE IF y < 0 THEN ZoomOutRefused(view_scale) ELSE FALSE} :
       \E sc \in {IF y > 0 THEN ScaleBy(view_scale, TRUE)
                  ELSE IF y < 0 THEN ScaleBy(view_scale, FALSE) ELSE view_scale} :
       \E zoom \in {IF y > 0 THEN view_zoom_level - 1
                    ELSE IF y < 0 THEN view_zoom_level + 1 ELSE view_zoom_level} :
          /\ last_wheel' = [y |-> y, refused |-> refused, handled |-> TRUE,
                            raised |-> FALSE]
          /\ IF refused
             THEN /\ UNCHANGED <<view_zoom_level, view_scale>>
                  /\ UNCHANGED vvars
                  /\ UNCHANGED bvars
                  /\ UNCHANGED tvars
                  /\ UNCHANGED wvars
             ELSE /\ view_scale' = sc
                  /\ view_zoom_level' = zoom
                  /\ UpdateImageWindow("window", TRUE, Bounds(sc, o), TRUE, zoom,
                                       0, 0, 0, FALSE)

\* Largest numerator and denominator of the scale from which an empty view is
\* zoomed further
MaxWheelScale == 4

\* _update_zoom(pt) on a view that never had setImage called: __init__ does
\* not create current_zoom_level, so after the unguarded self.scale(...) the
\* statement "self.current_zoom_level -= 1" (or "+= 1", or the read at the
\* end when y = 0) raises AttributeError; view_zoom_level keeps its
\* placeholder because the attribute does not exist
WheelEventNoImage(y) ==
    /\ last.op = "none"
    /\ view_scale[1] <= MaxWheelScale
    /\ view_scale[2] <= MaxWheelScale
    /\ view_scale' = (IF y > 0 THEN ScaleBy(view_scale, TRUE)
                      ELSE IF y < 0 THEN ScaleBy(view_scale, FALSE) ELSE view_scale)
    /\ last_wheel' = [y |-> y, refused |-> FALSE, handled |-> TRUE, raised |-> TRUE]
    /\ UNCHANGED view_zoom_level
    /\ UNCHANGED lvars
    /\ UNCHANGED vvars
    /\ UNCHANGED bvars
    /\ UNCHANGED tvars
    /\ UNCHANGED wvars

NextWheel ==
    \/ SetImage
    \/ \E y \in WheelDeltas : WheelEventNoImage(y)
    \/ \E y \in WheelDeltas, o \in ViewOrigins : WheelEvent(y, o)

SpecWheel == InitWheel /\ [][NextWheel]_vars


\* ------------------------------------------------------------------------
\* LevelsSliderWidget: three sliders over one range
\* ------------------------------------------------------------------------

\* Largest slider value
MaxSlider == 3

SliderValues == 0 .. MaxSlider

\* Values handed to setSliders, some of them outside every slider range
SetValues == -1 .. MaxSlider + 1

\* QAbstractSlider keeps a value inside [minimum, maximum]
qBound(lo, v, hi) == Max(lo, Min(v, hi))

\* QAbstractSlider.setMinimum(m) is setRange(m, max(maximum, m)) and
\* setMaximum(m) is setRange(min(minimum, m), m); the three sliders are always
\* given the same range, and each value is kept inside it
SetMinimum(w, m) ==
    [w EXCEPT !.minimum = m,
              !.maximum = Max(w.maximum, m),
              !.shadow_slider = qBound(m, w.shadow_slider, Max(w.maximum, m)),
              !.midtone_slider = qBound(m, w.midtone_slider, Max(w.maximum, m)),
              !.highlight_slider = qBound(m, w.highlight_slider, Max(w.maximum, m))]

SetMaximum(w, m) ==
    [w EXCEPT !.minimum = Min(w.minimum, m),
              !.maximum = m,
              !.shadow_slider = qBound(Min(w.minimum, m), w.shadow_slider, m),
              !.midtone_slider = qBound(Min(w.minimum, m), w.midtone_slider, m),
              !.highlight_slider = qBound(Min(w.minimum, m), w.highlight_slider, m)]

\* __init__ and _initUI: range, then shadow at image_min, midtone at
\* int((image_max - image_min)/2), highlight at image_max
NewSliders(lo, hi) ==
    [minimum |-> Min(lo, hi),
     maximum |-> hi,
     shadow_slider |-> qBound(Min(lo, hi), lo, hi),
     midtone_slider |-> qBound(Min(lo, hi), Trunc(hi - lo, 2), hi),
     highlight_slider |-> hi,
     image_min |-> lo,
     image_max |-> hi,
     image_mid |-> Trunc(hi - lo, 2)]

\* setImageMinimum(image_min, reset_slider_pos = True)
setImageMinimum(w, lo) ==
    [SetMinimum(w, lo) EXCEPT !.image_min = lo, !.shadow_slider = lo]

\* setImageMaximum(image_max, reset_slider_pos = True)
setImageMaximum(w, hi) ==
    [SetMaximum(w, hi) EXCEPT !.image_max = hi, !.highlight_slider = hi]

\* setImageMidpoint(image_mid) with image_mid inside [image_min, image_max]
setImageMidpoint(w, mid) ==
    [w EXCEPT !.image_mid = mid,
              !.midtone_slider = qBound(w.minimum, mid, w.maximum)]

\* The tests of setSliders, in the order of the code; TRUE when one raises
SetSlidersRaises(w, shadow_val, midtone_val, highlight_val) ==
    \/ shadow_val > midtone_val
    \/ highlight_val < midtone_val
    \/ shadow_val < w.minimum
    \/ shadow_val > w.maximum
    \/ midtone_val < w.minimum
    \/ midtone_val > w.maximum
    \/ highlight_val < w.minimum
    \/ highlight_val > w.maximum

\* setSliders past its tests: the three setValue calls, signals blocked
setSliders(w, shadow_val, midtone_val, highlight_val) ==
    [w EXCEPT !.shadow_slider = qBound(w.minimum, shadow_val, w.maximum),
              !.midtone_slider = qBound(w.minimum, midtone_val, w.maximum),
              !.highlight_slider = qBound(w.minimum, highlight_val, w.maximum)]

\* Faulty variant: the shadow slider is left where it was moved to
onShadowSliderMoved_Unbounded(w, pos) == w

\* _onShadowSliderMoved(pos), the slider already at pos
onShadowSliderMoved(w, pos) ==
    IF pos > w.midtone_slider
    THEN [w EXCEPT !.shadow_slider = w.midtone_slider]
    ELSE w

\* _onMidtoneSliderMoved(pos): the lower bound, then the upper bound
onMidtoneSliderMoved(w, pos) ==
    LET lower == IF pos < w.shadow_slider
                 THEN [w EXCEPT !.midtone_slider = w.shadow_slider]
                 ELSE w
    IN  IF pos > lower.highlight_slider
        THEN [lower EXCEPT !.midtone_slider = lower.highlight_slider]
        ELSE lower

\* _onHighlightSliderMoved(pos)
onHighlightSliderMoved(w, pos) ==
    IF pos < w.midtone_slider
    THEN [w EXCEPT !.highlight_slider = w.midtone_slider]
    ELSE w

InitSliders ==
    /\ \E lo \in SliderValues, hi \in SliderValues :
          levels_widget = NewSliders(lo, hi)
    /\ last_levels = NoLevelsCall
    /\ NoItem
    /\ NoTone
    /\ NoWindow
    /\ NoView
    \* no pyramid is built
    /\ shape = <<1, 1>>
    /\ data = [p \in Coords(1, 1) |-> 1]
    /\ attrs = [max_level |-> None, image_min |-> None, image_max |-> None]
    /\ pyramid = [exists |-> FALSE, levels |-> <<>>]
    /\ pc = "idle"
    /\ args = NoArgs
    /\ levels = 0
    /\ i = 0
    /\ row = 0
    /\ col = 0
    /\ index = 0
    /\ image_min = None
    /\ image_max = None
    /\ emitted = <<>>
    /\ log = ""
    /\ halo = NoHalo
    /\ built = NoArgs

OtherThanSliders == <<bvars, vvars, tvars, wvars, zvars>>

\* The user moves the shadow slider to pos: the slider takes the value and
\* valueChanged(pos) runs _onShadowSliderMoved
MoveShadow(pos) ==
    /\ pos # levels_widget.shadow_slider
    /\ levels_widget' =
          onShadowSliderMoved([levels_widget EXCEPT !.shadow_slider = pos], pos)
    /\ last_levels' = [op |-> "shadow", args |-> <<pos>>, raised |-> FALSE]
    /\ UNCHANGED OtherThanSliders

MoveMidtone(pos) ==
    /\ pos # levels_widget.midtone_slider
    /\ levels_widget' =
          onMidtoneSliderMoved([levels_widget EXCEPT !.midtone_slider = pos], pos)
    /\ last_levels' = [op |-> "midtone", args |-> <<pos>>, raised |-> FALSE]
    /\ UNCHANGED OtherThanSliders

MoveHighlight(pos) ==
    /\ pos # levels_widget.highlight_slider
    /\ levels_widget' =
          onHighlightSliderMoved([levels_widget EXCEPT !.highlight_slider = pos], pos)
    /\ last_levels' = [op |-> "highlight", args |-> <<pos>>, raised |-> FALSE]
    /\ UNCHANGED OtherThanSliders

\* setSliders(shadow_val, midtone_val, highlight_val)
SetSliders(shadow_val, midtone_val, highlight_val) ==
    /\ \E raises \in {SetSlidersRaises(levels_widget, shadow_val, midtone_val,
                                       highlight_val)} :
          /\ last_levels' = [op |-> "setSliders",
                             args |-> <<shadow_val, midtone_val, highlight_val>>,
                             raised |-> raises]
          /\ levels_widget' =
                IF raises THEN levels_widget
                ELSE setSliders(levels_widget, shadow_val, midtone_val,
                                highlight_val)
    /\ UNCHANGED OtherThanSliders

\* MainWindow._openImage hands the range of the opened raster to the widget:
\* setImageMinimum, setImageMaximum, setImageMidpoint
SetImageRange(lo, hi) ==
    /\ lo <= hi
    /\ levels_widget' =
          setImageMidpoint(setImageMaximum(setImageMinimum(levels_widget, lo), hi),
                           Trunc(hi - lo, 2) + lo)
    /\ last_levels' = [op |-> "range", args |-> <<lo, hi>>, raised |-> FALSE]
    /\ UNCHANGED OtherThanSliders

NextSliders ==
    \/ \E pos \in levels_widget.minimum .. levels_widget.maximum : MoveShadow(pos)
    \/ \E pos \in levels_widget.minimum .. levels_widget.maximum : MoveMidtone(pos)
    \/ \E pos \in levels_widget.minimum .. levels_widget.maximum : MoveHighlight(pos)
    \/ \E s \in SetValues, m \in SetValues, h \in SetValues : SetSliders(s, m, h)
    \/ \E lo \in SliderValues, hi \in SliderValues : SetImageRange(lo, hi)

SpecSliders == InitSliders /\ [][NextSliders]_vars

\* ------------------------------------------------------------------------
\* Properties of the image item
\* ------------------------------------------------------------------------

\* The raster selected for display
Level == PyramidLevel(current_zoom_level)

\* The viewport c has a pixel of the raster of level lv when the item is drawn
\* at scale sc
Intersects(c, sc, lv) ==
    /\ c.left < LevelShape(lv)[2] * sc
    /\ c.right > 0
    /\ c.top < LevelShape(lv)[1] * sc
    /\ c.bottom > 0

\* Array a is raster[r0 : r1, c0 : c1] of level lv
IsRasterSlice(a, lv, r0, r1, c0, c1) ==
    /\ a.h = r1 - r0
    /\ a.w = c1 - c0
    /\ \A r \in 0 .. a.h - 1, c \in 0 .. a.w - 1 :
          ArrayPixel(a, r, c) = <<lv, r0 + r, c0 + c>>

\* C8: at item scale 1 the array that _collect_processing_tiles returns for the
\* tile range x_min .. x_max, y_min .. y_max is
\* raster[y_min*t : min((y_max+1)*t, H), x_min*t : min((x_max+1)*t, W)] of the
\* raster on display, whether its tiles were cached or read.
C8_StitchedIsRasterSlice ==
    (/\ last.op # "none"
     /\ last.recomputed
     /\ last.result = "crop"
     /\ item_scale = 1)
        => LET t == processing_tile_size
               tr == TileRange(current_coordinates, t)
           IN IsRasterSlice(current_crop.image, Level,
                            tr.y_min * t, Min((tr.y_max + 1) * t, LevelShape(Level)[1]),
                            tr.x_min * t, Min((tr.x_max + 1) * t, LevelShape(Level)[2]))

\* C9: _calculate_crop returns None and reads no tile for a viewport that has
\* no pixel of the raster, and returns a crop for one that has.
C9_NoneIffOutside ==
    last.op # "none" =>
        IF Intersects(current_coordinates, item_scale, Level)
        THEN last.result = "crop"
        ELSE last.result = "None" /\ last.reads = {}

\* C10: for a viewport that has pixels of the raster, _calculate_crop skips the
\* recompute and returns the previous crop exactly when the tile keys the
\* viewport needs are the keys in the cache, shadow, mid and highlight are the
\* current ones and auto-levels is not asked for.
C10_ReuseIffNothingChanged ==
    [][(/\ last'.op # "none"
        /\ Intersects(current_coordinates', item_scale',
                      PyramidLevel(current_zoom_level')))
       => LET cache == IF last'.cleared THEN <<>> ELSE current_crop_list
              needed == TilesNeeded(TileRange(current_coordinates',
                                              processing_tile_size))
              unchanged == /\ DOMAIN cache = needed
                           /\ last'.shadow = current_shadow
                           /\ last'.mid = current_mid
                           /\ last'.highlight = current_highlight
                           /\ last'.op # "auto"
              reused == /\ ~last'.recomputed
                        /\ last'.result = "crop"
                        /\ current_crop' = current_crop
          IN reused <=> unchanged]_vars

C10_Witness ==
    /\ last.op = "window"
    /\ last.result = "crop"
    /\ ~last.recomputed
    /\ ~last.cleared
    /\ Intersects(current_coordinates, item_scale, Level)
    /\ Cardinality(DOMAIN current_crop_list) > 1

\* C11: a call of update_image_window with a zoom level other than the current
\* one empties the tile cache before it collects tiles.
C11_CacheEmptiedOnZoomChange ==
    [][current_zoom_level' # current_zoom_level => last'.cleared]_vars

\* z limited to lo .. hi
Clamp(z, lo, hi) == IF z < lo THEN lo ELSE IF z > hi THEN hi ELSE z

\* C12: every tile that a render at zoom level z reads is read from level
\* clamp(z, 0, max_level), level 0 being the original image.
C12_LevelIsClampedZoom ==
    (last.op # "none" /\ last.result = "crop") =>
        \A k \in last.reads :
            current_crop_list[k].lv = Clamp(current_zoom_level, 0, max_zoom)

C12_Witness ==
    /\ last.op = "window"
    /\ last.result = "crop"
    /\ last.reads # {}
    /\ max_zoom >= 1
    /\ current_zoom_level > max_zoom
    /\ \A k \in last.reads : current_crop_list[k].lv = max_zoom

\* C13: on a pyramid with max_level >= 1 the scale of the item after a call is
\* zoom_factor to the power of the level on display (zoom_factor^z for
\* 0 <= z <= max_level, 1 for z < 0, zoom_factor^max_level for z > max_level),
\* and a call without a zoom level leaves the scale as it is.
C13_ScaleMatchesRaster ==
    [][(last'.op # "none" /\ max_zoom >= 1)
       => /\ item_scale' = Power(zoom_factor,
                                 Clamp(current_zoom_level', 0, max_zoom))
          /\ (last'.op \in {"levels", "auto"} => item_scale' = item_scale)]_vars

\* C14: a render that changes nothing but shadow, mid and highlight reads no
\* tile, leaves the tile cache as it is and stitches the image of the crop
\* that was on display.
C14_ToneChangeReadsNothing ==
    [][last'.op = "levels"
       => /\ last'.reads = {}
          /\ current_crop_list' = current_crop_list
          /\ (last'.result = "crop" /\ current_crop # NoCrop
                => current_crop'.image = current_crop.image)]_vars

\* C20: for a crop whose pixels all have one value _compute_new_image_levels
\* divides by nothing and returns an array of zeros, whatever shadow, mid and
\* highlight are.
C20_ConstantCropAllZero ==
    (/\ tone_out # NoArray
     /\ Cardinality({tone_in.image.px[q] : q \in DOMAIN tone_in.image.px}) = 1)
        => \A q \in DOMAIN tone_out.px : tone_out.px[q].v = 0

\* C16: while a build runs, a level that a reader can find (its dataset is in
\* the pyramid group, or max_level names it) has all its blocks written.
C16_LevelVisibleOnlyWhenComplete ==
    pc \in {"level", "block", "endlevel"} => ~(LevelMissing \/ PartlyWritten)

\* The last call was left by the error of a tile read
ReadFailed == last.op # "none" /\ "failed_read" \in DOMAIN last

\* C19: when the read of a tile fails during a render, the error does not
\* leave update_image_window, the crop on display stays the current crop and
\* the tile cache holds the entries it held before the call.
C19_ReadFailureContained ==
    [][ReadFailed'
       => /\ last'.result # "raised"
          /\ current_crop' = current_crop
          /\ current_crop_list' = current_crop_list]_vars

\* ------------------------------------------------------------------------
\* Properties of the main window and its workers
\* ------------------------------------------------------------------------

\* Worker w is inside generate_pyramid
Running(w) == workers[w].pc \in {"check", "create", "level", "block", "endlevel"}

\* C15: no two executions of generate_pyramid run at the same time on the
\* same raster file; in particular no two of them are past the test for the
\* group "pyramid" and about to create it.
C15_OneBuildPerFile ==
    \A w1 \in DOMAIN workers, w2 \in DOMAIN workers :
        (w1 # w2 /\ Running(w1) /\ Running(w2))
            => workers[w1].file # workers[w2].file

\* The last signal worker w has emitted
LastSent(w) == workers[w].sent[Len(workers[w].sent)]

\* C17: the progress signals of a worker count the blocks of each level in
\* row-major order, one signal (k, T) after the k-th block with
\* T = ceil(M / blocksize) * ceil(N / blocksize) and k <= T, a level ends
\* with (T, T), and finished is emitted once, after every progress signal,
\* when the build is over.
C17_ProgressPerBlockThenFinished ==
    \A w \in DOMAIN workers :
        /\ \A k \in 1 .. Len(workers[w].sent) :
              \E s \in {workers[w].sent[k]} :
                 IF s.sig = "finished"
                 THEN k = Len(workers[w].sent)
                 ELSE \E sh \in {InputShape(workers[w].file, s.level)} :
                      \E cols \in {CeilDiv(sh[2], DefaultBlocksize)} :
                         /\ s.total = CeilDiv(sh[1], DefaultBlocksize) * cols
                         /\ s.index <= s.total
                         /\ IF s.index = 0
                            THEN k > 1 =>
                                    /\ workers[w].sent[k - 1].level = s.level - 1
                                    /\ workers[w].sent[k - 1].index
                                          = workers[w].sent[k - 1].total
                            ELSE /\ workers[w].sent[k - 1].level = s.level
                                 /\ workers[w].sent[k - 1].index = s.index - 1
                                 /\ s.row = ((s.index - 1) \div cols) * DefaultBlocksize
                                 /\ s.col = ((s.index - 1) % cols) * DefaultBlocksize
        /\ workers[w].pc \in {"block", "endlevel"} =>
              /\ LastSent(w).level = workers[w].i + 1
              /\ LastSent(w).index
                    = Cardinality(h5[workers[w].file].levels[workers[w].i + 1].written)
        /\ workers[w].pc = "endlevel" => LastSent(w).index = LastSent(w).total
        /\ workers[w].pc \in {"finished", "failed"} <=>
              (workers[w].sent # <<>> /\ LastSent(w).sig = "finished")

\* A worker has built both levels of a raster and emitted finished: four
\* blocks in level 1, one in level 2
C17_Witness ==
    \E w \in DOMAIN workers :
        /\ workers[w].pc = "finished"
        /\ workers[w].levels = 2
        /\ Len(workers[w].sent) = 8
        /\ workers[w].sent[5].index = 4
        /\ workers[w].sent[5].total = 4
        /\ workers[w].sent[5].row = DefaultBlocksize
        /\ workers[w].sent[5].col = DefaultBlocksize
        /\ workers[w].sent[7].index = 1
        /\ workers[w].sent[7].total = 1

\* C18: the main window does not load a raster on the finished signal of the
\* worker that built it (the only worker started for that raster) when the
\* generate_pyramid of that worker raised.
C18_FailedBuildNotLoaded ==
    (/\ loaded # NoImage
     /\ \A w \in DOMAIN workers :
           workers[w].file = loaded.image_file <=> w = loaded.by)
        => loaded.build # "failed"

\* ------------------------------------------------------------------------
\* Properties of the tone mapping
\* ------------------------------------------------------------------------

\* C21: the array returned for a crop of 2 dimensions and w columns has the
\* smallest multiple of 4 that is at least w as its column count, the added
\* columns being zero; the array returned for a crop of 3 dimensions has w
\* columns.
C21_GreyPaddedToMultipleOf4 ==
    tone_out # NoArray =>
        /\ tone_out.h = tone_in.image.h
        /\ IF tone_in.image.dim = 2
           THEN /\ tone_out.w = 4 * CeilDiv(tone_in.image.w, 4)
                /\ \A q \in DOMAIN tone_out.px :
                      q[2] >= tone_in.image.w => tone_out.px[q].v = 0
           ELSE tone_out.w = tone_in.image.w

\* The crop of the call has more than one pixel value
HasContrast ==
    Cardinality({tone_in.image.px[q] : q \in DOMAIN tone_in.image.px}) > 1

\* The linear rescaling of the value v between shadow and highlight to 0 .. 255
LinearRescale(v, shadow, highlight) ==
    IF v <= shadow THEN 0
    ELSE IF v >= highlight THEN 255
    ELSE (255 * (v - shadow)) \div (highlight - shadow)

\* C22: with mid the exact midpoint of shadow and highlight, every pixel of a
\* crop with contrast is mapped by the linear rescaling between shadow and
\* highlight: 0 up to shadow, 255 from highlight on, linear in between.
C22_MidpointIsLinear ==
    (/\ tone_out # NoArray
     /\ HasContrast
     /\ tone_in.shadow < tone_in.highlight
     /\ 2 * tone_in.mid = tone_in.shadow + tone_in.highlight)
        => \A q \in DOMAIN tone_in.image.px :
              /\ tone_out.px[q].kind = "uint8"
              /\ tone_out.px[q].v = LinearRescale(tone_in.image.px[q], tone_in.shadow,
                                                  tone_in.highlight)

\* C23: with highlight = shadow, the tone mapping of a crop with contrast
\* divides nothing by zero and returns a defined 8-bit value in 0 .. 255 for
\* every pixel.
C23_ZeroWidthWindowDefined ==
    (/\ tone_out # NoArray
     /\ HasContrast
     /\ tone_in.highlight = tone_in.shadow)
        => \A q \in DOMAIN tone_out.px :
              /\ tone_out.px[q].kind = "uint8"
              /\ tone_out.px[q].v \in 0 .. 255

\* ------------------------------------------------------------------------
\* Properties of malformed rasters
\* ------------------------------------------------------------------------

\* C24: generate_pyramid on a raster whose rank is neither 2 nor 3 writes no
\* attribute, no group and no dataset, and does not return as from a build.
C24_MalformedRasterRejected ==
    (Len(shape) < 2 \/ Len(shape) > 3)
        => /\ attrs = [max_level |-> None, image_min |-> None, image_max |-> None]
           /\ ~pyramid.exists
           /\ pyramid.levels = <<>>
           /\ pc # "returned"

\* ------------------------------------------------------------------------
\* Properties of the image levels of the item
\* ------------------------------------------------------------------------

\* The raw pixel values of the raster on display inside the viewport
ViewportValues ==
    BlockValues(WindowCrop(PyramidLevel(current_zoom_level), current_coordinates,
                           item_scale))

\* C25: after autoSetImageLevelsInBounds has made a crop, the current shadow is
\* the minimum and the current highlight the maximum of the raw pixels of the
\* viewport, and the current mid is shadow + floor((highlight - shadow) / 2);
\* these are the values the call returns.
C25_AutoLevelsAreViewportMinMidMax ==
    [][(last'.op = "auto" /\ last'.result = "crop")
       => /\ current_shadow' = SetMin(ViewportValues')
          /\ current_highlight' = SetMax(ViewportValues')
          /\ current_mid' = SetMin(ViewportValues')
                + (SetMax(ViewportValues') - SetMin(ViewportValues')) \div 2]_vars

\* C26: a step of setImageLevels(s, m, h) that renders the viewport leaves s,
\* m and h as the current shadow, mid and highlight of the item.
C26_SetLevelsAreCurrent ==
    [][\A t \in ToneLevels :
          (SetImageLevels(t[1], t[2], t[3]) /\ last'.result = "crop")
              => /\ current_shadow' = t[1]
                 /\ current_mid' = t[2]
                 /\ current_highlight' = t[3]]_vars

\* ------------------------------------------------------------------------
\* Properties of the wheel events
\* ------------------------------------------------------------------------

\* C27: every wheel event lowers the zoom level of
\* the view by one and scales the view up by the zoom factor (zoom in), or
\* raises it by one and scales the view down (zoom out); it leaves level and
\* scale as they are when it zooms in while the visible scene rectangle is
\* less than a pixel wide or high, or zooms out while that rectangle is wider
\* and higher than the scene. After the event the zoom level of the image
\* item, when the view shows one, is that of the view.
C27_WheelStepsZoomByOne ==
    [][last_wheel'.handled
       => /\ last'.op # "none" => current_zoom_level' = view_zoom_level'
          /\ IF last_wheel'.y > 0
             THEN IF ViewportSide * view_scale[2] < view_scale[1]
                  THEN /\ view_zoom_level' = view_zoom_level
                       /\ view_scale' = view_scale
                  ELSE /\ view_zoom_level' = view_zoom_level - 1
                       /\ RatEq(view_scale', <<zoom_factor * view_scale[1], view_scale[2]>>)
             ELSE IF last_wheel'.y < 0
             THEN IF /\ ViewportSide * view_scale[2] > SceneWidth * view_scale[1]
                     /\ ViewportSide * view_scale[2] > SceneHeight * view_scale[1]
                  THEN /\ view_zoom_level' = view_zoom_level
                       /\ view_scale' = view_scale
                  ELSE /\ view_zoom_level' = view_zoom_level + 1
                       /\ RatEq(view_scale', <<view_scale[1], zoom_factor * view_scale[2]>>)
             ELSE /\ view_zoom_level' = view_zoom_level
                  /\ view_scale' = view_scale]_vars

\* ------------------------------------------------------------------------
\* Properties of the levels sliders
\* ------------------------------------------------------------------------

\* C28: after any slider movements and setSliders calls the shadow slider is
\* not above the midtone slider and the midtone slider not above the
\* highlight slider; a setSliders call whose shadow exceeds its midtone,
\* whose midtone exceeds its highlight, or one of whose values lies outside
\* the slider range raises and leaves every slider where it was.
C28_SlidersStayOrdered ==
    /\ [](/\ levels_widget.shadow_slider <= levels_widget.midtone_slider
          /\ levels_widget.midtone_slider <= levels_widget.highlight_slider)
    /\ [][last_levels'.op = "setSliders"
          => LET a == last_levels'.args
             IN  (\/ a[1] > a[2]
                  \/ a[2] > a[3]
                  \/ \E k \in 1 .. 3 : a[k] \notin levels_widget.minimum .. levels_widget.maximum)
                 => /\ last_levels'.raised
                    /\ levels_widget' = levels_widget]_vars

\* setSliders has raised for a highlight above the slider maximum on a widget
\* whose three sliders had been brought to three different positions
C28_Witness ==
    /\ last_levels.op = "setSliders"
    /\ last_levels.raised
    /\ last_levels.args[1] <= last_levels.args[2]
    /\ last_levels.args[2] <= last_levels.args[3]
    /\ last_levels.args[3] > levels_widget.maximum
    /\ levels_widget.shadow_slider < levels_widget.midtone_slider
    /\ levels_widget.midtone_slider < levels_widget.highlight_slider
    /\ levels_widget.shadow_slider > levels_widget.minimum

\* ------------------------------------------------------------------------
\* Properties of the tile cache across renders
\* ------------------------------------------------------------------------

\* Tile k of the grid starts at a pixel of raster lv shown at item scale sc
StartsInside(lv, sc, t, k) ==
    /\ t * k[2] < LevelShape(lv)[1] * sc
    /\ t * k[1] < LevelShape(lv)[2] * sc

\* The needed tiles of viewport c that start inside raster lv
NeededInside(lv, sc, t, c) ==
    {k \in TilesNeeded(TileRange(c, t)) : StartsInside(lv, sc, t, k)}

\* C29: a render that leaves the zoom level as it is and recomputes the crop
\* reads exactly the needed tiles that start inside the raster and are not
\* cached, keeps the cached blocks of the needed tiles, and leaves a cache
\* whose keys are exactly the needed tiles that start inside the raster.
C29_CacheIsNeededTiles ==
    [][(/\ last'.recomputed
        /\ current_zoom_level' = current_zoom_level)
       => \E N \in {NeededInside(PyramidLevel(current_zoom_level'), item_scale',
                                 processing_tile_size, current_coordinates')} :
             /\ last'.reads = N \ DOMAIN current_crop_list
             /\ DOMAIN current_crop_list' = N
             /\ \A k \in N \cap DOMAIN current_crop_list :
                   current_crop_list'[k] = current_crop_list[k]]_vars

\* C30: whatever zoom levels update_image_window has been called with, once
\* it has returned a crop every block of the tile cache was read from the
\* raster that the current zoom level selects for display.
C30_CacheIsOfDisplayedRaster ==
    (last.op # "none" /\ last.result = "crop")
    => \A k \in DOMAIN current_crop_list :
          current_crop_list[k].lv = PyramidLevel(current_zoom_level)

\* ------------------------------------------------------------------------
\* Properties of repeated renders
\* ------------------------------------------------------------------------

\* C31: a call of update_image_window that follows a call which returned a
\* crop for a viewport with pixels of the raster, and that has the same
\* viewport, the same zoom level and the same
\* shadow, mid and highlight, returns the crop of that call without collecting
\* tiles and without computing image levels anew.
C31_RepeatedRenderReuses ==
    [][(/\ last.op # "none"
        /\ last.result = "crop"
        /\ last'.op = "window"
        /\ ~last'.cleared
        /\ current_coordinates' = current_coordinates
        /\ current_zoom_level' = current_zoom_level
        /\ last'.shadow = current_shadow
        /\ last'.mid = current_mid
        /\ last'.highlight = current_highlight
        /\ Intersects(current_coordinates, item_scale,
                      PyramidLevel(current_zoom_level)))
       => /\ ~last'.recomputed
          /\ last'.result = "crop"
          /\ current_crop' = current_crop]_vars

\* ------------------------------------------------------------------------
\* Properties of repeated builds
\* ------------------------------------------------------------------------

\* C32: once a build has completed on the file, after every generate_pyramid
\* call that has returned, whatever its arguments, each level 1 .. max_level
\* that the max_level attribute names has its dataset in the pyramid group.
C32_NamedLevelsExist ==
    (pc = "returned" /\ built # NoArgs) => ~LevelMissing

\* C33: when a call with downsample 2 has built the pyramid and returned, the
\* rows and the columns of the coarsest level, level max_level, are at most
\* max_length.
C33_CoarsestFitsMaxLength ==
    (/\ pc = "returned"
     /\ log = ""
     /\ built = args
     /\ args.downsample = 2
     /\ attrs.max_level >= 1
     /\ Len(pyramid.levels) = attrs.max_level)
        => /\ pyramid.levels[attrs.max_level].shape[1] <= args.max_length
           /\ pyramid.levels[attrs.max_level].shape[2] <= args.max_length

\* ------------------------------------------------------------------------
\* Properties of the blocks of a level
\* ------------------------------------------------------------------------

\* "for row in range(0, M, blocksize)": the first rows, or columns, of the blocks
BlockStarts(n, blocksize) == {k \in 0 .. n - 1 : k % blocksize = 0}

\* The output pixels that the block at (r, c) writes
BlockRegion(M, N, r, c, a) == DOMAIN BlockOutput(M, N, r, c, a)

\* C34: with downsample 2, when the blocks of a level have all been written,
\* the regions the blocks wrote lie inside the level dataset, no two of them
\* share a pixel, together they are all ceil(M/2) x ceil(N/2) pixels of the
\* dataset, and pixel (r, c) of the dataset was filtered at source pixel
\* (2r, 2c).
C34_BlocksTileTheOutput ==
    (pc = "endlevel" /\ args.downsample = 2)
        => LET M == SourceShape(i + 1)[1]
               N == SourceShape(i + 1)[2]
               blocks == BlockStarts(M, args.blocksize) \X BlockStarts(N, args.blocksize)
               out == Coords(CeilDiv(M, 2), CeilDiv(N, 2))
               px == pyramid.levels[i + 1].px
           IN /\ \A b \in blocks : BlockRegion(M, N, b[1], b[2], args) \subseteq out
              /\ \A b1 \in blocks, b2 \in blocks :
                    b1 # b2 => BlockRegion(M, N, b1[1], b1[2], args)
                                  \cap BlockRegion(M, N, b2[1], b2[2], args) = {}
              /\ UNION {BlockRegion(M, N, b[1], b[2], args) : b \in blocks} = out
              /\ \A p \in out :
                    /\ px[p] # Unwritten
                    /\ px[p][1] = 2 * p[1]
                    /\ px[p][2] = 2 * p[2]

\* ------------------------------------------------------------------------
\* Properties of the load after a build
\* ------------------------------------------------------------------------

\* C35: when the finished signal of a worker makes _load_image load a raster
\* into the view, the raster is the file that worker has built, and no worker
\* is inside generate_pyramid on that file.
C35_LoadedFileIsTheOneBuilt ==
    [][(loaded' # NoImage /\ loaded' # loaded)
       => /\ workers[loaded'.by].file = loaded'.image_file
          /\ \A w \in DOMAIN workers :
                workers[w].file = loaded'.image_file => ~Running(w)]_vars

\* ------------------------------------------------------------------------
\* Properties of the gamma and of the rescaling to 8 bit
\* ------------------------------------------------------------------------

\* The mid that _compute_new_image_levels hands to _gamma_correct for a crop
\* with contrast: "float(mid - image_min) / float(image_max - image_min)"
NormalisedMid ==
    LET values == {tone_in.image.px[q] : q \in DOMAIN tone_in.image.px}
    IN <<tone_in.mid - SetMin(values), SetMax(values) - SetMin(values)>>

\* The crop of the call has contrast, so that _gamma_correct has run
GammaCorrectCalled ==
    /\ tone_out # NoArray
    /\ NormalisedMid[2] # 0

\* C36: the gamma of _gamma_correct lies in 0.01 .. 9.99 for every normalised
\* mid, is above 1 exactly when mid < 0.5, below 1 exactly when mid > 0.5 and
\* 1, with no power applied, exactly when mid = 0.5; gamma is never 0, so
\* 1 / gamma is defined.
C36_GammaInRange ==
    GammaCorrectCalled
        => LET mid == NormalisedMid
               gamma == Gamma(mid)
               powered == GammaCorrect(<<0, 1>>, <<0, 1>>, mid, <<1, 1>>).powered
           IN /\ ~RatLess(gamma, <<1, 100>>)
              /\ ~RatLess(<<999, 100>>, gamma)
              /\ gamma[1] # 0
              /\ RatLess(<<1, 1>>, gamma) <=> RatLess(mid, <<1, 2>>)
              /\ RatLess(gamma, <<1, 1>>) <=> RatLess(<<1, 2>>, mid)
              /\ (RatEq(gamma, <<1, 1>>) /\ ~powered) <=> RatEq(mid, <<1, 2>>)
              /\ RatLess(mid, <<1, 2>>)
                    => gamma = RatMin({<<10 * mid[2] - 18 * mid[1], mid[2]>>,
                                       <<999, 100>>})
              /\ RatLess(<<1, 2>>, mid)
                    => gamma = RatMax({<<2 * mid[2] - 2 * mid[1], mid[2]>>,
                                       <<1, 100>>})

\* _gamma_correct has run with a mid above 1, whose unclamped gamma is
\* negative, and the gamma is the floor 0.01
C36_Witness ==
    /\ GammaCorrectCalled
    /\ RatLess(<<1, 1>>, NormalisedMid)
    /\ Gamma(NormalisedMid) = <<1, 100>>

\* The image _compute_new_image_levels hands to _rescale_to_8_bit: the crop
\* of the call, normalised and gamma-corrected
Corrected ==
    LET values == {tone_in.image.px[q] : q \in DOMAIN tone_in.image.px}
        mn == SetMin(values)
        d == SetMax(values) - mn
    IN [q \in DOMAIN tone_in.image.px |->
           GammaCorrect(<<tone_in.image.px[q] - mn, d>>, <<tone_in.shadow - mn, d>>,
                        <<tone_in.mid - mn, d>>, <<tone_in.highlight - mn, d>>)]

\* _rescale_to_8_bit has run on an image of numbers (no nan)
RescaleCalled ==
    /\ GammaCorrectCalled
    /\ \A q \in DOMAIN Corrected : ~Corrected[q].nan

\* C37: when every pixel handed to _rescale_to_8_bit has the same value, the
\* 8-bit output is 0 everywhere; otherwise the pixels at the minimum become 0,
\* those at the maximum 255, and a pixel that is not above another one is not
\* above it in the output.
C37_RescaleKeepsRange ==
    RescaleCalled
        => LET px == Corrected
               mx == RatMax({px[r].x : r \in DOMAIN px})
               mn == RatMin({px[r].x : r \in DOMAIN px})
               out == tone_out.px
           IN IF RatEq(mx, mn)
              THEN \A q \in DOMAIN px : out[q] = [kind |-> "uint8", v |-> 0]
              ELSE /\ \A q \in DOMAIN px :
                        /\ RatEq(px[q].x, mn) => out[q] = [kind |-> "uint8", v |-> 0]
                        /\ RatEq(px[q].x, mx) => out[q] = [kind |-> "uint8", v |-> 255]
                   /\ \A q, r \in DOMAIN px :
                        (/\ out[q].kind = "uint8"
                         /\ out[r].kind = "uint8"
                         /\ ~RatLess(px[r].x, px[q].x))
                            => out[q].v <= out[r].v

\* ------------------------------------------------------------------------
\* Properties of a render that returns None
\* ------------------------------------------------------------------------

\* C38: a render that returns None without a change of zoom, made while a
\* crop of a pyramid level of the raster is held for display, leaves the crop,
\* the pixmaps, the paint offset and the tile cache as they were.
C38_NoneLeavesDisplay ==
    [][(/\ current_crop # NoCrop
        /\ current_zoom_level \in 0 .. max_zoom
        /\ last'.op # "none"
        /\ last'.result = "None"
        /\ ~last'.cleared
        /\ current_zoom_level' = current_zoom_level)
       => /\ current_crop' = current_crop
          /\ pixmaps' = pixmaps
          /\ paint_x_coord' = paint_x_coord
          /\ paint_y_coord' = paint_y_coord
          /\ current_crop_list' = current_crop_list]_vars

====
